---- MODULE Spec2Model ----
(***************************************************************************)
(* Model of the multi-tenant authentication broker: the tenant resolver    *)
(* (middleware/schemaDetection.js), the partition pool manager              *)
(* (repo/connection/pools), the tenant registry and credential service      *)
(* (services/clientServerService.js, repo/adminRepository.js), the account  *)
(* service (services/userService.js, repo/userRepository.js) and the owner  *)
(* service (services/ownerService.js).                                      *)
(*                                                                          *)
(* Database assumed by the model: the schemas and tables created by the     *)
(* repository's init scripts (auth_internal.client_servers,                 *)
(* client_template.users, client_template.sessions) plus the table          *)
(* public.client_servers that detectSchemaFromReturnUrl's UNION ALL query   *)
(* names.  No connection of the control-plane pool ever sets a session      *)
(* search_path, so every unqualified "client_servers" resolves through the  *)
(* default path to public.client_servers.                                   *)
(***************************************************************************)
EXTENDS Integers, Sequences, FiniteSets, TLC

\* ------------------------------------------------------------------ bounds
MaxCookies == 1
MaxUuid == 9
MaxClock == 1
MaxTenants == 2
MaxCalls == 2
MaxOps == 2
MaxConns == 2
MaxIds == 4
MaxStarts == 3

\* --------------------------------------------------------------- constants
None == "none"      \* undefined / null (strings)
NoSchema == << >>    \* undefined schema name
NoClient == << >>    \* undefined client_id
NoId == 0            \* undefined uuid
NoUrl == << >>       \* request without returnUrl

POOL_CONTEXTS ==
    [AUTH_INTERNAL |-> "auth_internal", CLIENT_TENANT |-> "client_tenant",
     API_CLIENT |-> "api_client", DEFAULT |-> "default"]

USER_ROLES == [ADMIN |-> "admin", OWNER |-> "owner", USER |-> "user"]

\* process.env.SEED_SCHEMA || "client_template"
DefaultSchema == <<"client_template">>

AuthInternalSchema == <<"auth_internal">>

\* an adminRepository.js that also exported getClientServer
adminRepositoryExportsComplete ==
    {"createClientServer", "getClientServer", "getClientServerByClientId",
     "updateClientServer", "deleteClientServer", "getUserClientServers",
     "getUserClientServer", "updateUserClientServer", "deleteUserClientServer",
     "getAllClientServers", "adminService", "default"}

\* the names adminRepository.js exports (import * as repo)
adminRepositoryExports ==
    {"createClientServer", "getClientServerByClientId", "updateClientServer",
     "deleteClientServer", "getUserClientServers", "getUserClientServer",
     "updateUserClientServer", "deleteUserClientServer", "getAllClientServers",
     "adminService", "default"}

\* ------------------------------------------------------------ input domains
Cookies == 1..MaxCookies
Emails == {"e1"}
Passwords == {"p1", "p2"}
AppNames == {<<"A", "-">>}
UrlPrefixA == <<"a">>
UrlPrefixB == <<"b">>
AllowedLists == {<<UrlPrefixA>>, <<UrlPrefixB>>}
ReturnUrls == {<<"a", "x">>, <<"b", "x">>, <<"c">>}
ClientModes == {"frontend-login-proxy", "api-auth-server"}

VARIABLES
    clients,      \* rows of public.client_servers, in heap order
    authClients,  \* rows of auth_internal.client_servers, in heap order
    parts,        \* partition name -> [users, sessions] tables of that schema
    schemas,      \* process-wide handle cache of getPoolForSchema (names cached)
    pool,         \* process-wide control-plane handle of getPool (TRUE: cached)
    sess,         \* express-session store: cookie -> session object
    uuids,        \* number of uuidv4() values drawn so far
    now,          \* Date.now()
    issued,       \* the credentials register calls have returned to their callers
    resp          \* the last request: its inputs, resolved context and outcome

sysVars == <<clients, authClients, parts, schemas, pool, sess, uuids, now, issued, resp>>

\* the pool manager, one asynchronous call at a time
VARIABLES
    cached,       \* the `schemas` object of getPoolForSchema: name -> handle (0: none)
    authPool,     \* the `pool` variable of getPool: handle (0: undefined)
    repoPools,    \* the `pools` object of userRepository.js: name -> handle (0: none)
    calls,        \* the calls in flight: their arguments and the await they are at
    ready,        \* handles whose "set search_path" statement has succeeded
    catalog,      \* the database's committed schemas <<s>> and tables <<s, t>>
    made          \* table -> number of times it was physically created

poolVars == <<cached, authPool, repoPools, calls, ready, catalog, made>>

\* the partitions' rows, reached through per-partition handles
VARIABLES
    db,           \* partition -> the rows of its users and sessions tables
    conns,        \* <<partition, k>> -> search_path of connection k of the
                  \* partition's handle (<< >>: not open)
    ops,          \* the repository operations in flight
    nextId,       \* number of uuidv4() values drawn
    started,      \* number of operations called so far
    home          \* account id -> the partition createUser was called for

partVars == <<db, conns, ops, nextId, started, home>>

\* the owner service
VARIABLES
    ownerCall     \* the last client-scoped owner operation: caller, tenant, outcome

\* the pool service's guards and guarded queries
VARIABLES
    guardCall,    \* the last guard or guarded query: caller, outcome, statements run
    poolCall      \* the last getPoolForRequest: caller, outcome, partition of the handle

guardVars == <<guardCall, poolCall>>

vars == <<sysVars, poolVars, partVars, ownerCall, guardVars>>

\* ------------------------------------------------------------ pure helpers
\* String.prototype.startsWith
StartsWith(s, p) == Len(p) <= Len(s) /\ SubSeq(s, 1, Len(p)) = p

\* bcrypt.hash / bcrypt.compare: a one-way image of the plaintext
Hash(secret) == <<"bcrypt", secret>>
Compare(secret, hash) == hash = Hash(secret)

\* app_name.toLowerCase().replace(/[^a-z0-9]/g, "_") on one character
SanitizeChar(ch) ==
    IF ch \in {"a", "b"} THEN ch
    ELSE IF ch = "A" THEN "a"
    ELSE IF ch = "B" THEN "b"
    ELSE "_"

Sanitize(name) == [i \in 1..Len(name) |-> SanitizeChar(name[i])]

\* `client_${sanitized}_${Date.now()}`
SchemaNameFor(app_name, t) == <<"client", Sanitize(app_name), t>>

\* ------------------------------------------------------------ the session
NoMeta == [user_role |-> None, client_id |-> NoClient]

\* a session object on which no middleware has written yet
FreshSession ==
    [poolContext |-> None, schema |-> NoSchema, poolMetadata |-> NoMeta,
     userId |-> NoId, role |-> None]

\* no Authorization header
NoToken ==
    [present |-> FALSE, sigOk |-> FALSE, expired |-> FALSE, type |-> None,
     client_id |-> NoClient, schema |-> NoSchema]

\* the token authenticateClientServer signs for a registry row (jwt.sign)
TokenFor(row) ==
    [present |-> TRUE, sigOk |-> TRUE, expired |-> FALSE, type |-> "api_token",
     client_id |-> row.client_id, schema |-> row.assigned_schema_name]

\* a bearer token whose signature does not verify
ForgedToken ==
    [present |-> TRUE, sigOk |-> FALSE, expired |-> FALSE, type |-> "api_token",
     client_id |-> NoClient, schema |-> NoSchema]

\* a token signed for a registry row more than its lifetime ago
ExpiredToken(row) == [TokenFor(row) EXCEPT !.expired = TRUE]

\* a token signed with the same secret for another purpose
WrongTypeToken(row) == [TokenFor(row) EXCEPT !.type = "session_token"]

\* a well-signed api token naming a client_id of no registry row
UnknownTenantToken ==
    [present |-> TRUE, sigOk |-> TRUE, expired |-> FALSE, type |-> "api_token",
     client_id |-> <<"client", 0>>, schema |-> DefaultSchema]

\* SELECT * FROM client_servers WHERE client_id = $1 (rows[0])
RowsById(rows, id) == SelectSeq(rows, LAMBDA r : r.client_id = id)

\* ------------------------------------------------------------ the resolver
setPoolContext(s, context, schema, metadata) ==
    [s EXCEPT !.poolContext = context, !.schema = schema, !.poolMetadata = metadata]

\* verifyApiToken: the outcome of the call, as {ok, error, client_id, schema}
NoVerify == [ok |-> FALSE, error |-> None, client_id |-> NoClient, schema |-> NoSchema]

VerifyFail(e) == [ok |-> FALSE, error |-> e, client_id |-> NoClient, schema |-> NoSchema]

verifyApiToken(token, rows) ==
    IF ~token.present THEN VerifyFail("AuthError")
    ELSE IF ~token.sigOk \/ token.expired THEN VerifyFail("AuthError")
    ELSE IF token.type # "api_token" THEN VerifyFail("AuthError")
    ELSE IF "getClientServer" \notin adminRepositoryExports
         THEN VerifyFail("TypeError")   \* repo.getClientServer is not a function
    ELSE IF RowsById(rows, token.client_id) = << >> THEN VerifyFail("AuthError")
    ELSE [ok |-> TRUE, error |-> None, client_id |-> token.client_id,
          schema |-> token.schema]

\* step 1 trusting the token's own claims instead of verifying them
detectSchemaFromApiTokenUnverified(s, req, rows) ==
    IF req.token.present
    THEN setPoolContext(s, POOL_CONTEXTS.API_CLIENT, req.token.schema,
             [user_role |-> "api_client", client_id |-> req.token.client_id])
    ELSE s

detectSchemaFromApiToken(s, req, rows) ==
    IF req.token.present
    THEN LET clientInfo == verifyApiToken(req.token, rows)
         IN IF clientInfo.ok
            THEN setPoolContext(s, POOL_CONTEXTS.API_CLIENT, clientInfo.schema,
                     [user_role |-> "api_client", client_id |-> clientInfo.client_id])
            ELSE s
    ELSE s

\* allowedUrl && returnUrl && returnUrl.startsWith(allowedUrl)
UrlMatches(allowedUrl, returnUrl) ==
    allowedUrl # << >> /\ returnUrl # << >> /\ StartsWith(returnUrl, allowedUrl)

ClientMatches(client, returnUrl) ==
    \E j \in 1..Len(client.allowed_return_urls) :
        UrlMatches(client.allowed_return_urls[j], returnUrl)

\* clientServers.find(...): index of the first matching row, 0 when none
FindMatching(clientServers, returnUrl) ==
    LET hits == {i \in 1..Len(clientServers) : ClientMatches(clientServers[i], returnUrl)}
    IN IF hits = {} THEN 0 ELSE CHOOSE i \in hits : \A k \in hits : i <= k

detectSchemaFromReturnUrl(s, req, authRows, publicRows) ==
    IF req.returnUrl # NoUrl
    THEN IF req.regFails THEN s      \* the query throws; the catch calls next()
         ELSE LET clientServers == authRows \o publicRows
                  m == FindMatching(clientServers, req.returnUrl)
              IN IF m # 0
                 THEN setPoolContext(s, POOL_CONTEXTS.CLIENT_TENANT,
                          clientServers[m].assigned_schema_name,
                          [user_role |-> USER_ROLES.USER,
                           client_id |-> clientServers[m].client_id])
                 ELSE s
    ELSE s

\* SELECT COUNT(*) FROM client_servers WHERE user_id = $1
OwnedCount(publicRows, userId) ==
    Cardinality({i \in 1..Len(publicRows) : publicRows[i].user_id = userId})

detectUserRole(s, req, publicRows) ==
    IF s.userId # NoId /\ s.poolContext = None
    THEN IF s.role = "admin"
         THEN setPoolContext(s, POOL_CONTEXTS.AUTH_INTERNAL, AuthInternalSchema,
                  [user_role |-> USER_ROLES.ADMIN, client_id |-> NoClient])
         ELSE IF req.regFails THEN s   \* the query throws; the catch calls next()
         ELSE IF OwnedCount(publicRows, s.userId) > 0
         THEN setPoolContext(s, POOL_CONTEXTS.AUTH_INTERNAL, AuthInternalSchema,
                  [user_role |-> USER_ROLES.OWNER, client_id |-> NoClient])
         ELSE setPoolContext(s, POOL_CONTEXTS.DEFAULT, DefaultSchema,
                  [user_role |-> USER_ROLES.USER, client_id |-> NoClient])
    ELSE s

\* setDefaultSchema leaving an unresolved session unresolved
setDefaultSchemaSkipped(s) == s

\* setDefaultSchema writing the default whatever the session holds
setDefaultSchemaAlways(s) ==
    setPoolContext(s, POOL_CONTEXTS.DEFAULT, DefaultSchema,
        [user_role |-> USER_ROLES.USER, client_id |-> NoClient])

\* the session part of setDefaultSchema
setDefaultSchema(s) ==
    IF s.poolContext = None
    THEN setPoolContext(s, POOL_CONTEXTS.DEFAULT, DefaultSchema,
             [user_role |-> USER_ROLES.USER, client_id |-> NoClient])
    ELSE s

\* req.schema after setDefaultSchema(s): set only on the else-branch
ReqSchemaAfter(s) == IF s.poolContext = None THEN NoSchema ELSE s.schema

\* steps 1-3 of detectSchema
detectSteps(s, req, authRows, publicRows) ==
    LET s1 == detectSchemaFromApiToken(s, req, publicRows)
        s2 == IF s1.poolContext = None
              THEN detectSchemaFromReturnUrl(s1, req, authRows, publicRows) ELSE s1
    IN IF s2.poolContext = None THEN detectUserRole(s2, req, publicRows) ELSE s2

detectSchema(s, req, authRows, publicRows) ==
    setDefaultSchema(detectSteps(s, req, authRows, publicRows))

\* one run of detectSchema: the session before it and after each of its four
\* steps
detectRun(s, req, authRows, publicRows) ==
    LET s1 == detectSchemaFromApiToken(s, req, publicRows)
        s2 == IF s1.poolContext = None
              THEN detectSchemaFromReturnUrl(s1, req, authRows, publicRows) ELSE s1
        s3 == IF s2.poolContext = None THEN detectUserRole(s2, req, publicRows) ELSE s2
    IN <<s, s1, s2, s3, setDefaultSchema(s3)>>

\* whether steps 2 and 3 call getPool() for the control-plane handle
DetectCallsGetPool(s, req, publicRows) ==
    LET s1 == detectSchemaFromApiToken(s, req, publicRows)
    IN s1.poolContext = None
       /\ (req.returnUrl # NoUrl \/ (s1.userId # NoId /\ s1.role # "admin"))

getUserRole(s) ==
    IF s.poolMetadata.user_role # None THEN s.poolMetadata.user_role ELSE USER_ROLES.USER
isSystemAdmin(s) == getUserRole(s) = USER_ROLES.ADMIN
isClientOwner(s) == getUserRole(s) = USER_ROLES.OWNER

\* the resolved context of a session: {pool context, partition, role}
Ctx(s) == [poolContext |-> s.poolContext, schema |-> s.schema, role |-> getUserRole(s)]

\* ------------------------------------------------------- partitions, pools
EmptyPart == [users |-> {}, sessions |-> {}]

\* getPoolForSchema + initSchema, run to completion: the partition's tables
\* exist afterwards ("create ... if not exists"; client_template's tables are
\* created by the database init script)
Provision(ps, name) == IF name \in DOMAIN ps THEN ps ELSE ps @@ (name :> EmptyPart)

\* req.session?.schema || process.env.SEED_SCHEMA || "client_template"
SchemaOf(s) == IF s.schema # NoSchema THEN s.schema ELSE DefaultSchema

\* resolvePoolFromSession: the partition whose handle it returns
\* (AuthInternalSchema stands for the control-plane handle of getPool)
resolvePoolFromSession(s) ==
    IF s.poolContext = POOL_CONTEXTS.AUTH_INTERNAL THEN AuthInternalSchema
    ELSE SchemaOf(s)

\* users.find((u) => u.email === email) over SELECT * FROM users
UsersByEmail(ps, schema, email) == {u \in ps[schema].users : u.email = email}

\* ------------------------------------------------------------- a request
Req(c, tok, url, rf) == [cookie |-> c, token |-> tok, returnUrl |-> url, regFails |-> rf]

TokenInputs ==
    {NoToken, ForgedToken, UnknownTenantToken}
    \cup {TokenFor(clients[i]) : i \in 1..Len(clients)}
    \cup {ExpiredToken(clients[i]) : i \in 1..Len(clients)}
    \cup {WrongTypeToken(clients[i]) : i \in 1..Len(clients)}
UrlInputs == {NoUrl} \cup ReturnUrls

NoOut ==
    [client_id |-> NoClient, client_secret |-> NoId, assigned_schema_name |-> NoSchema]

\* one step of a handler: a privilege guard that returned, or a statement on
\* a partition's users or sessions table
Step(kind, name) == [kind |-> kind, name |-> name]

\* the guards and partition statements a handler ran after detectSchema, in
\* order, given how it ended
HandlerSteps(route, status) ==
    IF route = "login"
    THEN <<Step("query", "getUserByEmail")>>
         \o (IF status = "ok" THEN <<Step("query", "createSession")>> ELSE << >>)
    ELSE IF route = "register"
    THEN <<Step("query", "getUserByEmail")>>
         \o (IF status = "ok" THEN <<Step("query", "createUser")>> ELSE << >>)
    ELSE IF route = "logout"
    THEN IF status = "ok" THEN <<Step("query", "deleteSessionByUserId")>> ELSE << >>
    ELSE << >>

\* what the request left behind: the session express-session saves, and resp
\* (data: the registry rows the response body carries)
RespondWith(route, req, s, status, out, data, message) ==
    /\ sess' = [sess EXCEPT ![req.cookie] = s]
    /\ UNCHANGED <<poolVars, partVars, ownerCall, guardVars>>
    /\ resp' = [route |-> route, req |-> req, pre |-> sess[req.cookie],
                ctx |-> Ctx(detectSchema(sess[req.cookie], req, authClients, clients)),
                next |-> TRUE, status |-> status, out |-> out,
                steps |-> HandlerSteps(route, status),
                verify |-> IF req.token.present THEN verifyApiToken(req.token, clients)
                           ELSE NoVerify,
                data |-> data, message |-> message]

Respond(route, req, s, status, out) ==
    RespondWith(route, req, s, status, out, << >>, None)

PoolAfterDetect(req) ==
    pool \/ DetectCallsGetPool(sess[req.cookie], req, clients)

\* a route whose handler touches neither the session nor a partition
\* (app.use(detectSchema) runs for every request)
Request(c, tok, url, rf) ==
    LET req == Req(c, tok, url, rf)
        s == detectSchema(sess[c], req, authClients, clients)
    IN /\ Respond("any", req, s, "ok", NoOut)
       /\ pool' = PoolAfterDetect(req)
       /\ UNCHANGED <<clients, authClients, parts, schemas, uuids, now, issued>>

\* login telling an unknown email from a wrong password
loginOutcomeDistinct(found, password) ==
    IF found = {} THEN [status |-> "AuthError", message |-> "User not found"]
    ELSE IF (CHOOSE u \in found : TRUE).password_hash # password
    THEN [status |-> "AuthError", message |-> "Invalid credentials"]
    ELSE [status |-> "ok", message |-> "Login successful"]

\* login's checks on the row getUserByEmail returned: the error it throws, or
\* its success response
loginOutcome(found, password) ==
    IF found = {} THEN [status |-> "AuthError", message |-> "Invalid credentials"]
    ELSE IF (CHOOSE u \in found : TRUE).password_hash # password
    THEN [status |-> "AuthError", message |-> "Invalid credentials"]
    ELSE [status |-> "ok", message |-> "Login successful"]

\* POST /api/auth/login -> userService.login
Login(c, tok, url, email, password) ==
    LET req == Req(c, tok, url, FALSE)
        s == detectSchema(sess[c], req, authClients, clients)
        schema == SchemaOf(s)
        ps == Provision(parts, schema)
        found == UsersByEmail(ps, schema, email)
        outcome == loginOutcome(found, password)
    IN /\ pool' = PoolAfterDetect(req)
       /\ schemas' = schemas \cup {schema}
       /\ UNCHANGED <<clients, authClients, now, issued>>
       /\ IF outcome.status # "ok"
          THEN /\ RespondWith("login", req, s, outcome.status, NoOut, << >>,
                              outcome.message)
               /\ parts' = ps
               /\ UNCHANGED uuids
          ELSE LET user == CHOOSE u \in found : TRUE
               IN /\ uuids + 3 <= MaxUuid
                  /\ uuids' = uuids + 3
                  /\ parts' = [ps EXCEPT ![schema].sessions = @ \cup
                         {[id |-> uuids + 2, user_id |-> user.id,
                           session_id |-> uuids + 3]}]
                  /\ RespondWith("login", req,
                         [s EXCEPT !.userId = user.id, !.role = user.role],
                         "ok", NoOut, << >>, outcome.message)

\* POST /api/auth/register -> userService.register
Register(c, tok, url, email, password, role) ==
    LET req == Req(c, tok, url, FALSE)
        s == detectSchema(sess[c], req, authClients, clients)
        schema == SchemaOf(s)
        ps == Provision(parts, schema)
    IN /\ pool' = PoolAfterDetect(req)
       /\ schemas' = schemas \cup {schema}
       /\ UNCHANGED <<clients, authClients, now, issued>>
       /\ IF UsersByEmail(ps, schema, email) # {}
          THEN /\ Respond("register", req, s, "ValidationError", NoOut)
               /\ parts' = ps
               /\ UNCHANGED uuids
          ELSE /\ uuids + 1 <= MaxUuid
               /\ uuids' = uuids + 1
               /\ parts' = [ps EXCEPT ![schema].users = @ \cup
                      {[id |-> uuids + 1,
                        role |-> IF role # None THEN role ELSE "user",
                        email |-> email, password_hash |-> password]}]
               /\ Respond("register", req, s, "ok", NoOut)

\* POST /api/auth/logout -> userService.logout
Logout(c, tok, url) ==
    LET req == Req(c, tok, url, FALSE)
        s3 == detectSteps(sess[c], req, authClients, clients)
        s == setDefaultSchema(s3)
        reqSchema == IF ReqSchemaAfter(s3) # NoSchema THEN ReqSchemaAfter(s3)
                     ELSE DefaultSchema
        ps == Provision(parts, reqSchema)
    IN /\ pool' = PoolAfterDetect(req)
       /\ UNCHANGED <<clients, authClients, uuids, now, issued>>
       /\ IF s.userId = NoId
          THEN /\ Respond("logout", req, s, "AuthError", NoOut)
               /\ UNCHANGED <<parts, schemas>>
          ELSE /\ schemas' = schemas \cup {reqSchema}
               /\ parts' = [ps EXCEPT ![reqSchema].sessions =
                                {r \in @ : r.user_id # s.userId}]
               /\ Respond("logout", req, FreshSession, "ok", NoOut)

\* ------------------------------------------------------------ the registry
\* an insert checked against the primary key only
InsertConflictsOnIdOnly(rows, row) ==
    \E i \in 1..Len(rows) : rows[i].client_id = row.client_id

\* INSERT INTO client_servers: PRIMARY KEY (client_id), UNIQUE (assigned_schema_name)
InsertConflicts(rows, row) ==
    \E i \in 1..Len(rows) :
        \/ rows[i].client_id = row.client_id
        \/ rows[i].assigned_schema_name = row.assigned_schema_name

\* createClientServer storing its secret as drawn, unhashed
createClientServerPlain(first, data) ==
    [client_id |-> <<"client", first + 1>>,
     client_secret_hash |-> <<"plain", first + 2>>,
     app_name |-> data.app_name,
     assigned_schema_name |-> data.assigned_schema_name,
     allowed_return_urls |-> data.allowed_return_urls,
     user_id |-> data.user_id,
     client_mode |-> IF data.client_mode # None THEN data.client_mode
                     ELSE "frontend-login-proxy"]

\* adminRepository.createClientServer(req, clientServerData): it draws its own
\* client_id and client_secret; `first` is the number of uuids drawn before it
createClientServer(first, data) ==
    [client_id |-> <<"client", first + 1>>,
     client_secret_hash |-> Hash(first + 2),
     app_name |-> data.app_name,
     assigned_schema_name |-> data.assigned_schema_name,
     allowed_return_urls |-> data.allowed_return_urls,
     user_id |-> data.user_id,
     client_mode |-> IF data.client_mode # None THEN data.client_mode
                     ELSE "frontend-login-proxy"]

\* the body shared by registerClientServer and registerClientServerForUser,
\* after validation: the caller's own client_id and client_secret are drawn
\* first and returned; repo.createClientServer(pool, {...}) receives the pg
\* pool as its `req`, so its insert runs on resolvePoolFromSession of an
\* object without session
RegisterBody(route, req, s, app_name, urls, user_id, mode) ==
    LET client_id == <<"client", uuids + 1>>
        client_secret == uuids + 2
        assigned_schema_name == SchemaNameFor(app_name, now)
        row == createClientServer(uuids + 2,
                   [client_id |-> client_id,
                    client_secret_hash |-> Hash(client_secret),
                    app_name |-> app_name,
                    assigned_schema_name |-> assigned_schema_name,
                    allowed_return_urls |-> urls,
                    user_id |-> user_id, client_mode |-> mode])
        insertVia == resolvePoolFromSession(FreshSession)
        out == [client_id |-> client_id, client_secret |-> client_secret,
                assigned_schema_name |-> assigned_schema_name]
    IN /\ uuids + 4 <= MaxUuid
       /\ Len(clients) < MaxTenants
       /\ uuids' = uuids + 4
       /\ pool' = TRUE
       /\ UNCHANGED <<authClients, now>>
       /\ IF InsertConflicts(clients, row)
          THEN /\ Respond(route, req, s, "DbError", NoOut)
               /\ schemas' = schemas \cup {insertVia}
               /\ parts' = Provision(parts, insertVia)
               /\ UNCHANGED <<clients, issued>>
          ELSE /\ clients' = Append(clients, row)
               /\ schemas' = schemas \cup {insertVia, assigned_schema_name}
               /\ parts' = Provision(Provision(parts, insertVia), assigned_schema_name)
               /\ issued' = issued \cup {out}
               /\ Respond(route, req, s, "ok", out)

\* a value of the JSON body: undefined, a string, or an array of urls
Undefined == [type |-> "undefined", items |-> << >>]
StringValue == [type |-> "string", items |-> <<UrlPrefixA>>]
Arr(items) == [type |-> "array", items |-> items]

\* !(!app_name || !allowed_return_urls || !Array.isArray(allowed_return_urls))
ValidRegistration(app_name, urls) ==
    app_name # << >> /\ urls.type # "undefined" /\ urls.type = "array"

\* a register call that threw before drawing credentials
RegisterRejected(route, req, s, status) ==
    /\ Respond(route, req, s, status, NoOut)
    /\ pool' = PoolAfterDetect(req)
    /\ UNCHANGED <<clients, authClients, parts, schemas, uuids, now, issued>>

\* a request whose JSON body carries app_name and allowed_return_urls
RegisterReq(c, tok, url, app_name, urls) ==
    [cookie |-> c, token |-> tok, returnUrl |-> url, regFails |-> FALSE,
     body |-> [app_name |-> app_name, allowed_return_urls |-> urls]]

\* POST /api/clientServer/register -> registerClientServer
RegisterClientServer(c, tok, url, app_name, urls) ==
    LET req == RegisterReq(c, tok, url, app_name, urls)
        s == detectSchema(sess[c], req, authClients, clients)
    IN IF ~ValidRegistration(app_name, urls)
       THEN RegisterRejected("registerClientServer", req, s, "ValidationError")
       ELSE RegisterBody("registerClientServer", req, s, app_name, urls.items, NoId,
                         "api-auth-server")

\* POST /api/clientServer/user/register -> isAuthenticated,
\* registerClientServerForUser (client_mode = "frontend-login-proxy" when the
\* body has none)
RegisterClientServerForUser(c, tok, url, app_name, urls, mode) ==
    LET req == RegisterReq(c, tok, url, app_name, urls)
        s == detectSchema(sess[c], req, authClients, clients)
        client_mode == IF mode # None THEN mode ELSE "frontend-login-proxy"
    IN IF s.userId = NoId
       THEN RegisterRejected("registerClientServerForUser", req, s, "401")
       ELSE IF ~ValidRegistration(app_name, urls)
       THEN RegisterRejected("registerClientServerForUser", req, s, "ValidationError")
       ELSE IF client_mode \notin ClientModes
       THEN RegisterRejected("registerClientServerForUser", req, s, "ValidationError")
       ELSE RegisterBody("registerClientServerForUser", req, s, app_name, urls.items,
                         s.userId, client_mode)

\* authenticateClientServer (the handshake): the outcome of the call
HandshakeResult(status, message, token) ==
    [status |-> status, message |-> message, token |-> token]

authenticateClientServer(rows, client_id, client_secret) ==
    IF client_id = NoClient \/ client_secret = NoId
    THEN HandshakeResult("ValidationError", "client_id and client_secret are required",
                         NoToken)
    ELSE IF "getClientServer" \notin adminRepositoryExports
    THEN HandshakeResult("TypeError", "repo.getClientServer is not a function", NoToken)
    ELSE LET found == RowsById(rows, client_id)
         IN IF found = << >>
            THEN HandshakeResult("AuthError", "Invalid client credentials", NoToken)
            ELSE IF ~Compare(client_secret, found[1].client_secret_hash)
            THEN HandshakeResult("AuthError", "Invalid client credentials", NoToken)
            ELSE HandshakeResult("ok", "Authentication successful", TokenFor(found[1]))

\* POST /api/clientServer/handshake with credentials a register call returned
\* (wrongSecret: with another secret)
Handshake(c, tok, url, cred, wrongSecret) ==
    LET req == Req(c, tok, url, FALSE)
        s == detectSchema(sess[c], req, authClients, clients)
        secret == IF wrongSecret THEN cred.client_secret + 1 ELSE cred.client_secret
        result == authenticateClientServer(clients, cred.client_id, secret)
    IN /\ RespondWith("handshake", req, s, result.status,
                      [cred EXCEPT !.client_secret = secret], << >>, result.message)
       /\ pool' = TRUE
       /\ UNCHANGED <<clients, authClients, parts, schemas, uuids, now, issued>>

\* ------------------------------------------- lookups, lists and updates
\* SELECT client_id, app_name, assigned_schema_name, allowed_return_urls,
\*        client_mode, created_at, updated_at
ListedColumns(row) ==
    [client_id |-> row.client_id, app_name |-> row.app_name,
     assigned_schema_name |-> row.assigned_schema_name,
     allowed_return_urls |-> row.allowed_return_urls,
     client_mode |-> row.client_mode]

\* const { client_secret_hash, ...clientInfo } = clientServer
WithoutHash(row) ==
    [client_id |-> row.client_id, app_name |-> row.app_name,
     assigned_schema_name |-> row.assigned_schema_name,
     allowed_return_urls |-> row.allowed_return_urls,
     client_mode |-> row.client_mode, user_id |-> row.user_id]

RECURSIVE Reverse(_)
Reverse(s) == IF s = << >> THEN << >> ELSE Append(Reverse(Tail(s)), Head(s))

\* ... WHERE user_id = $1 AND client_id = $2
OwnedById(rows, userId, clientId) ==
    SelectSeq(rows, LAMBDA r : r.user_id = userId /\ r.client_id = clientId)

\* a handler of the registry that leaves the registry as it is
RegistryRead(route, req, s, status, data, gotPool) ==
    /\ RespondWith(route, req, s, status, NoOut, data, None)
    /\ pool' = (gotPool \/ PoolAfterDetect(req))
    /\ UNCHANGED <<clients, authClients, parts, schemas, uuids, now, issued>>

\* GET /api/clientServer/user/clients -> isAuthenticated, getUserClientServers
GetUserClientServers(c) ==
    LET req == Req(c, NoToken, NoUrl, FALSE)
        s == detectSchema(sess[c], req, authClients, clients)
    IN IF s.userId = NoId
       THEN RegistryRead("getUserClientServers", req, s, "401", << >>, FALSE)
       ELSE LET mine == SelectSeq(clients, LAMBDA r : r.user_id = s.userId)
            IN RegistryRead("getUserClientServers", req, s, "ok",
                   Reverse([i \in 1..Len(mine) |-> ListedColumns(mine[i])]), TRUE)

\* GET /api/clientServer/user/clients/:client_id -> isAuthenticated,
\* getUserClientServer
GetUserClientServer(c, clientId) ==
    LET req == Req(c, NoToken, NoUrl, FALSE)
        s == detectSchema(sess[c], req, authClients, clients)
        rows == OwnedById(clients, s.userId, clientId)
    IN IF s.userId = NoId
       THEN RegistryRead("getUserClientServer", req, s, "401", << >>, FALSE)
       ELSE IF rows = << >>
       THEN RegistryRead("getUserClientServer", req, s, "NotFoundError", << >>, TRUE)
       ELSE RegistryRead("getUserClientServer", req, s, "ok",
                         <<ListedColumns(rows[1])>>, TRUE)

\* GET /api/clientServer/:client_id -> isAuthenticated, hasRole("admin"),
\* getClientServerInfo
GetClientServerInfo(c, clientId) ==
    LET req == Req(c, NoToken, NoUrl, FALSE)
        s == detectSchema(sess[c], req, authClients, clients)
        rows == RowsById(clients, clientId)
    IN IF s.userId = NoId \/ s.role # "admin"
       THEN RegistryRead("getClientServerInfo", req, s, "401", << >>, FALSE)
       ELSE IF "getClientServer" \notin adminRepositoryExports
       THEN RegistryRead("getClientServerInfo", req, s, "TypeError", << >>, TRUE)
       ELSE IF rows = << >>
       THEN RegistryRead("getClientServerInfo", req, s, "NotFoundError", << >>, TRUE)
       ELSE RegistryRead("getClientServerInfo", req, s, "ok", <<WithoutHash(rows[1])>>, TRUE)

\* an update that also takes the partition name from updateData
applyUpdateWithSchema(row, updateData) ==
    [row EXCEPT
        !.app_name = IF updateData.app_name # << >> THEN updateData.app_name ELSE @,
        !.allowed_return_urls = IF updateData.allowed_return_urls.type # "undefined"
                                THEN updateData.allowed_return_urls.items ELSE @,
        !.client_mode = IF updateData.client_mode # None THEN updateData.client_mode ELSE @,
        !.assigned_schema_name = IF updateData.assigned_schema_name # NoSchema
                                 THEN updateData.assigned_schema_name ELSE @]

\* updatedData / updatedClient: app_name, allowed_return_urls and client_mode
\* from updateData when truthy, everything else from the existing row
applyUpdate(row, updateData) ==
    [row EXCEPT
        !.app_name = IF updateData.app_name # << >> THEN updateData.app_name ELSE @,
        !.allowed_return_urls = IF updateData.allowed_return_urls.type # "undefined"
                                THEN updateData.allowed_return_urls.items ELSE @,
        !.client_mode = IF updateData.client_mode # None THEN updateData.client_mode ELSE @]

\* UPDATE client_servers SET ... WHERE client_id = $1
UpdateRows(rows, clientId, updateData) ==
    [i \in 1..Len(rows) |->
        IF rows[i].client_id = clientId THEN applyUpdate(rows[i], updateData) ELSE rows[i]]

\* a request whose JSON body is updateData
UpdateReq(c, tok, updateData) ==
    [cookie |-> c, token |-> tok, returnUrl |-> NoUrl, regFails |-> FALSE,
     body |-> updateData]

\* a handler of the registry that rewrites rows
RegistryWrite(route, req, s, rows, data) ==
    /\ RespondWith(route, req, s, "ok", NoOut, data, None)
    /\ clients' = rows
    /\ pool' = TRUE
    /\ UNCHANGED <<authClients, parts, schemas, uuids, now, issued>>

\* PUT /api/clientServer/user/clients/:client_id -> isAuthenticated,
\* updateUserClientServer
UpdateUserClientServer(c, clientId, updateData) ==
    LET req == UpdateReq(c, NoToken, updateData)
        s == detectSchema(sess[c], req, authClients, clients)
        existing == OwnedById(clients, s.userId, clientId)
        rows == UpdateRows(clients, clientId, updateData)
    IN IF s.userId = NoId
       THEN RegistryRead("updateUserClientServer", req, s, "401", << >>, FALSE)
       ELSE IF existing = << >>
       THEN RegistryRead("updateUserClientServer", req, s, "NotFoundError", << >>, TRUE)
       ELSE RegistryWrite("updateUserClientServer", req, s, rows,
                          <<ListedColumns(OwnedById(rows, s.userId, clientId)[1])>>)

\* PUT /api/clientServer/me -> authenticateClientServer (middleware),
\* updateClientServer(req.clientContext.client_id, req.body)
UpdateClientServer(c, tok, updateData) ==
    LET req == UpdateReq(c, tok, updateData)
        s == detectSchema(sess[c], req, authClients, clients)
        clientInfo == verifyApiToken(tok, clients)
        rows == UpdateRows(clients, clientInfo.client_id, updateData)
    IN IF ~clientInfo.ok
       THEN RegistryRead("updateClientServer", req, s, clientInfo.error, << >>,
                         tok.present /\ tok.sigOk /\ ~tok.expired /\ tok.type = "api_token")
       ELSE IF "getClientServer" \notin adminRepositoryExports
       THEN RegistryRead("updateClientServer", req, s, "TypeError", << >>, TRUE)
       ELSE IF RowsById(clients, clientInfo.client_id) = << >>
       THEN RegistryRead("updateClientServer", req, s, "NotFoundError", << >>, TRUE)
       ELSE RegistryWrite("updateClientServer", req, s, rows,
                          <<WithoutHash(RowsById(rows, clientInfo.client_id)[1])>>)

\* DELETE FROM client_servers WHERE user_id = $1 AND client_id = $2
deleteRows(rows, userId, clientId) ==
    SelectSeq(rows, LAMBDA r : ~(r.user_id = userId /\ r.client_id = clientId))

\* a request naming a tenant in its path (req.params.client_id)
DeleteReq(c, tok, clientId) ==
    [cookie |-> c, token |-> tok, returnUrl |-> NoUrl, regFails |-> FALSE,
     params |-> [client_id |-> clientId]]

\* RETURNING client_id, app_name
DeletedColumns(row) == [client_id |-> row.client_id, app_name |-> row.app_name]

\* DELETE /api/clientServer/user/clients/:client_id -> isAuthenticated,
\* deleteUserClientServer
DeleteUserClientServer(c, clientId) ==
    LET req == DeleteReq(c, NoToken, clientId)
        s == detectSchema(sess[c], req, authClients, clients)
        rows == OwnedById(clients, s.userId, clientId)
    IN IF s.userId = NoId
       THEN RegistryRead("deleteUserClientServer", req, s, "401", << >>, FALSE)
       ELSE IF rows = << >>
       THEN RegistryRead("deleteUserClientServer", req, s, "NotFoundError", << >>, TRUE)
       ELSE RegistryWrite("deleteUserClientServer", req, s,
                          deleteRows(clients, s.userId, clientId),
                          <<DeletedColumns(rows[1])>>)

\* DELETE /api/clientServer/:client_id -> isAuthenticated, hasRole("admin"),
\* deleteClientServer
DeleteClientServer(c, clientId) ==
    LET req == DeleteReq(c, NoToken, clientId)
        s == detectSchema(sess[c], req, authClients, clients)
        rows == RowsById(clients, clientId)
    IN IF s.userId = NoId \/ s.role # "admin"
       THEN RegistryRead("deleteClientServer", req, s, "401", << >>, FALSE)
       ELSE IF "getClientServer" \notin adminRepositoryExports
       THEN RegistryRead("deleteClientServer", req, s, "TypeError", << >>, TRUE)
       ELSE IF rows = << >>
       THEN RegistryRead("deleteClientServer", req, s, "NotFoundError", << >>, TRUE)
       ELSE RegistryWrite("deleteClientServer", req, s,
                          SelectSeq(clients, LAMBDA r : r.client_id # clientId), << >>)

\* time passes between requests
Tick ==
    /\ now < MaxClock
    /\ now' = now + 1
    /\ UNCHANGED <<clients, authClients, parts, schemas, pool, sess, uuids, issued, resp>>
    /\ UNCHANGED <<poolVars, partVars, ownerCall, guardVars>>

\* ------------------------------------------------------- the specification
NoReq == Req(1, NoToken, NoUrl, FALSE)

SysInit ==
    /\ clients = << >>
    /\ authClients = << >>
    /\ parts = (DefaultSchema :> EmptyPart)
    /\ schemas = {}
    /\ pool = FALSE
    /\ sess = [c \in Cookies |-> FreshSession]
    /\ uuids = 0
    /\ now = 0
    /\ issued = {}
    /\ resp = [route |-> "none", req |-> NoReq, pre |-> FreshSession,
               ctx |-> Ctx(FreshSession), next |-> FALSE, status |-> "none",
               out |-> NoOut,
               steps |-> << >>, verify |-> NoVerify, data |-> << >>,
               message |-> None]

Next ==
    \/ \E c \in Cookies, tok \in TokenInputs, url \in UrlInputs, rf \in BOOLEAN :
           Request(c, tok, url, rf)
    \/ \E c \in Cookies, url \in UrlInputs, email \in Emails, password \in Passwords :
           Login(c, NoToken, url, email, password)
    \/ \E c \in Cookies, url \in UrlInputs, email \in Emails, role \in {None, "admin"} :
           Register(c, NoToken, url, email, "p1", role)
    \/ \E c \in Cookies : Logout(c, NoToken, NoUrl)
    \/ \E c \in Cookies, app_name \in AppNames, urls \in AllowedLists :
           RegisterClientServer(c, NoToken, NoUrl, app_name, Arr(urls))
    \/ \E c \in Cookies, app_name \in AppNames, urls \in AllowedLists,
          mode \in ClientModes :
           RegisterClientServerForUser(c, NoToken, NoUrl, app_name, Arr(urls), mode)
    \/ \E c \in Cookies, cred \in issued, wrongSecret \in BOOLEAN :
           Handshake(c, NoToken, NoUrl, cred, wrongSecret)
    \/ Tick

\* ------------------------------------------------- the registry's handlers
\* bodies of register calls, well-formed and not
RegNames == AppNames \cup {<< >>}
RegLists == {Arr(urls) : urls \in AllowedLists} \cup {Undefined, StringValue, Arr(<< >>)}
RegModes == ClientModes \cup {None, "bogus"}

\* client ids a caller may name: every tenant's and one of no tenant
ClientIdInputs == {clients[i].client_id : i \in 1..Len(clients)} \cup {<<"client", 0>>}

\* bodies of update calls: the updatable fields, the fields of the record an
\* update must not touch, and an operating mode outside the enumeration
UpdateInputs ==
    {[app_name |-> <<"B">>, allowed_return_urls |-> Arr(<<UrlPrefixB>>),
      client_mode |-> "api-auth-server", assigned_schema_name |-> NoSchema,
      client_id |-> NoClient, client_secret_hash |-> << >>, user_id |-> NoId],
     [app_name |-> <<"C">>, allowed_return_urls |-> Undefined,
      client_mode |-> None, assigned_schema_name |-> DefaultSchema,
      client_id |-> <<"client", 0>>, client_secret_hash |-> Hash(0), user_id |-> 99],
     [app_name |-> << >>, allowed_return_urls |-> Undefined,
      client_mode |-> "bogus", assigned_schema_name |-> NoSchema,
      client_id |-> NoClient, client_secret_hash |-> << >>, user_id |-> NoId]}

\* credentials a handshake may present: those a register call returned, and
\* the client_id of a registry row (as the owner's listing shows it) with a
\* secret of the caller's choosing
HandshakeInputs ==
    issued \cup {[client_id |-> clients[i].client_id, client_secret |-> 1,
                  assigned_schema_name |-> clients[i].assigned_schema_name] :
                     i \in 1..Len(clients)}

\* the registry's handlers are called from one browser session
RegistryCookies == {1}

RegistryNext ==
    \/ \E c \in RegistryCookies, email \in Emails, role \in {None, "admin"} :
           Register(c, NoToken, NoUrl, email, "p1", role)
    \/ \E c \in RegistryCookies, email \in Emails, password \in Passwords :
           Login(c, NoToken, NoUrl, email, password)
    \/ \E c \in RegistryCookies, cred \in HandshakeInputs, wrongSecret \in BOOLEAN :
           Handshake(c, NoToken, NoUrl, cred, wrongSecret)
    \/ \E c \in RegistryCookies, app_name \in RegNames, urls \in RegLists :
           RegisterClientServer(c, NoToken, NoUrl, app_name, urls)
    \/ \E c \in RegistryCookies, app_name \in RegNames, urls \in RegLists, mode \in RegModes :
           RegisterClientServerForUser(c, NoToken, NoUrl, app_name, urls, mode)
    \/ \E c \in RegistryCookies : GetUserClientServers(c)
    \/ \E c \in RegistryCookies, clientId \in ClientIdInputs : GetUserClientServer(c, clientId)
    \/ \E c \in RegistryCookies, clientId \in ClientIdInputs : GetClientServerInfo(c, clientId)
    \/ \E c \in RegistryCookies, clientId \in ClientIdInputs, updateData \in UpdateInputs :
           UpdateUserClientServer(c, clientId, updateData)
    \/ \E c \in RegistryCookies, tok \in TokenInputs, updateData \in UpdateInputs :
           UpdateClientServer(c, tok, updateData)
    \/ \E c \in RegistryCookies, clientId \in ClientIdInputs :
           DeleteUserClientServer(c, clientId)
    \/ \E c \in RegistryCookies, clientId \in ClientIdInputs :
           DeleteClientServer(c, clientId)
    \/ Tick

\* ------------------------------------------- register calls and their names
\* display names: two that sanitize to the same string, and a third
NameInputs == {<<"A", "-">>, <<"a", "_">>, <<"B">>}

NamesNext ==
    \/ \E c \in RegistryCookies, email \in Emails :
           Register(c, NoToken, NoUrl, email, "p1", None)
    \/ \E c \in RegistryCookies, email \in Emails :
           Login(c, NoToken, NoUrl, email, "p1")
    \/ \E c \in RegistryCookies, app_name \in NameInputs :
           RegisterClientServer(c, NoToken, NoUrl, app_name, Arr(<<UrlPrefixA>>))
    \/ \E c \in RegistryCookies, app_name \in NameInputs, mode \in ClientModes :
           RegisterClientServerForUser(c, NoToken, NoUrl, app_name, Arr(<<UrlPrefixA>>), mode)
    \/ Tick

\* --------------------------------------- tokens of tenants that were deleted
\* the client_id of the record behind a credential a register call returned:
\* adminRepository.createClientServer draws its own after the caller's two
StoredClientId(cred) == <<"client", cred.client_id[2] + 2>>

\* the api tokens signed for the tenants registered so far, deleted or not
\* (jwt.sign({client_id, schema, type: "api_token"}))
IssuedTokens ==
    {[present |-> TRUE, sigOk |-> TRUE, expired |-> FALSE, type |-> "api_token",
      client_id |-> StoredClientId(cred), schema |-> cred.assigned_schema_name] :
        cred \in issued}

RevokeNext ==
    \/ \E c \in RegistryCookies, email \in Emails :
           Register(c, NoToken, NoUrl, email, "p1", None)
    \/ \E c \in RegistryCookies, email \in Emails :
           Login(c, NoToken, NoUrl, email, "p1")
    \/ \E c \in RegistryCookies, app_name \in AppNames, mode \in ClientModes :
           RegisterClientServerForUser(c, NoToken, NoUrl, app_name, Arr(<<UrlPrefixA>>), mode)
    \/ \E c \in RegistryCookies, clientId \in ClientIdInputs :
           DeleteUserClientServer(c, clientId)
    \/ \E c \in RegistryCookies, tok \in {NoToken} \cup IssuedTokens, url \in UrlInputs :
           Request(c, tok, url, FALSE)
    \/ \E c \in RegistryCookies : Logout(c, NoToken, NoUrl)
    \/ Tick

\* --------------------------------------------------------- the pool manager
Calls == 1..MaxCalls

\* a tenant partition no call has seen before
TenantSchema == SchemaNameFor(<<"A", "-">>, 0)

PoolNames == {DefaultSchema, TenantSchema}

\* where an injected failure strikes: the connect, a provisioning statement,
\* the "set search_path" statement
Faults == {"none", "connect", "ddl", "searchPath"}

Stmt(op, schema, table) == [op |-> op, schema |-> schema, table |-> table]

\* schemas/auth_internal/client_servers.js: ddl(tenant = "auth_internal")
ddlAuthInternal(tenant) ==
    <<Stmt("begin", tenant, None), Stmt("createSchema", tenant, None),
      Stmt("setLocal", tenant, None), Stmt("createTable", tenant, "client_servers"),
      Stmt("commit", tenant, None)>>

\* schemas/client_servers/client_server_template.js: ddl(tenant)
ddl(tenant) ==
    <<Stmt("begin", tenant, None), Stmt("createSchema", tenant, None),
      Stmt("setLocal", tenant, None), Stmt("createTable", tenant, "users"),
      Stmt("createTable", tenant, "sessions"), Stmt("commit", tenant, None)>>

\* initSchema of getPoolForSchema: the statements it sends, in order
initSchema(schemaName) ==
    <<Stmt("createSchema", schemaName, None)>>
        \o (IF schemaName = DefaultSchema THEN << >> ELSE ddl(schemaName))

\* the statements a call sends between its connect and its return
Statements(c) ==
    IF c.fn = "getPool" THEN ddlAuthInternal(AuthInternalSchema)
    ELSE initSchema(c.name)

\* the statement an injected "ddl" failure strikes: the last create statement
FaultAt(stmts) ==
    CHOOSE i \in 1..Len(stmts) :
        /\ stmts[i].op \in {"createSchema", "createTable"}
        /\ \A k \in (i + 1)..Len(stmts) : stmts[k].op \notin {"createSchema", "createTable"}

Tables == {<<TenantSchema, "users">>, <<TenantSchema, "sessions">>,
           <<AuthInternalSchema, "client_servers">>}

IdleCall ==
    [fn |-> None, name |-> NoSchema, fault |-> "none", pc |-> "idle", stmt |-> 0,
     inTx |-> FALSE, txn |-> {}, result |-> 0]

\* the call rejects (check's catch clears its own cache entry)
Fail(p, c) ==
    /\ calls' = [calls EXCEPT ![p] = [c EXCEPT !.pc = "failed"]]
    /\ repoPools' = IF c.fn = "check" THEN [repoPools EXCEPT ![c.name] = 0]
                    ELSE repoPools

\* the call returns handle h (check stores it in its own cache)
Return(p, c, h) ==
    /\ calls' = [calls EXCEPT ![p] = [c EXCEPT !.pc = "done", !.result = h]]
    /\ repoPools' = IF c.fn = "check" THEN [repoPools EXCEPT ![c.name] = h]
                    ELSE repoPools

\* a call that constructs and provisions a handle whatever the caches hold
CallUncached(p, fn, name, fault) ==
    LET c == [IdleCall EXCEPT !.fn = fn, !.name = name, !.fault = fault]
    IN /\ calls[p].pc = "idle"
       /\ UNCHANGED <<ready, catalog, made, cached, repoPools>>
       /\ authPool' = IF fn = "getPool" THEN p ELSE authPool
       /\ calls' = [calls EXCEPT ![p] = [c EXCEPT !.pc = "connect"]]

\* the synchronous part of a call, up to its first await; the handle a call
\* constructs is identified by the call
Call(p, fn, name, fault) ==
    LET c == [IdleCall EXCEPT !.fn = fn, !.name = name, !.fault = fault]
    IN /\ calls[p].pc = "idle"
       /\ UNCHANGED <<ready, catalog, made>>
       /\ IF fn = "getPool"
          THEN /\ UNCHANGED cached
               /\ IF authPool # 0
                  THEN Return(p, c, authPool) /\ UNCHANGED authPool
                  ELSE /\ authPool' = p
                       /\ calls' = [calls EXCEPT ![p] = [c EXCEPT !.pc = "connect"]]
                       /\ UNCHANGED repoPools
          ELSE /\ UNCHANGED <<authPool, cached>>
               /\ IF fn = "check" /\ repoPools[name] # 0
                  THEN /\ calls' = [calls EXCEPT ![p] =
                              [c EXCEPT !.pc = "done", !.result = repoPools[name]]]
                       /\ UNCHANGED repoPools
                  ELSE IF cached[name] # 0
                  THEN Return(p, c, cached[name])
                  ELSE /\ calls' = [calls EXCEPT ![p] = [c EXCEPT !.pc = "connect"]]
                       /\ UNCHANGED repoPools

\* await pool.connect()
Connect(p) ==
    LET c == calls[p]
    IN /\ c.pc = "connect"
       /\ UNCHANGED <<cached, authPool, ready, catalog, made>>
       /\ IF c.fault = "connect" THEN Fail(p, c)
          ELSE /\ calls' = [calls EXCEPT ![p] = [c EXCEPT !.pc = "ddl", !.stmt = 1]]
               /\ UNCHANGED repoPools

\* table t was created by a transaction of another call that is still open
Held(t, p) == \E q \in Calls \ {p} : t \in calls[q].txn

\* a cache of one slot: writing a handle drops the handles of other names
AdvanceSingleSlot(p, c, c2) ==
    IF c.stmt < Len(Statements(c))
    THEN /\ calls' = [calls EXCEPT ![p] = [c2 EXCEPT !.stmt = c.stmt + 1]]
         /\ UNCHANGED <<cached, repoPools>>
    ELSE IF c.fn = "getPool"
    THEN Return(p, c2, authPool) /\ UNCHANGED cached
    ELSE /\ cached' = [n \in PoolNames |-> IF n = c.name THEN p ELSE 0]
         /\ calls' = [calls EXCEPT ![p] = [c2 EXCEPT !.pc = "searchPath"]]
         /\ UNCHANGED repoPools

\* the continuation after statement c.stmt of call p has succeeded, c2 being
\* the call with the statement's effect on its transaction: the next
\* statement, or what follows initSchema in the caller (getPoolForSchema
\* writes the cache and only then sends "set search_path")
Advance(p, c, c2) ==
    IF c.stmt < Len(Statements(c))
    THEN /\ calls' = [calls EXCEPT ![p] = [c2 EXCEPT !.stmt = c.stmt + 1]]
         /\ UNCHANGED <<cached, repoPools>>
    ELSE IF c.fn = "getPool"
    THEN Return(p, c2, authPool) /\ UNCHANGED cached
    ELSE /\ cached' = [cached EXCEPT ![c.name] = p]
         /\ calls' = [calls EXCEPT ![p] = [c2 EXCEPT !.pc = "searchPath"]]
         /\ UNCHANGED repoPools

\* await pool.query(stmt) for the statement the call is at.  "create table if
\* not exists" looks the table up among the committed ones; when another open
\* transaction has created it, the statement waits for that transaction.
Exec(p) ==
    LET c == calls[p]
        st == Statements(c)[c.stmt]
        t == <<st.schema, st.table>>
    IN /\ c.pc = "ddl"
       /\ UNCHANGED <<authPool, ready>>
       /\ IF c.fault = "ddl" /\ c.stmt = FaultAt(Statements(c))
          THEN Fail(p, c) /\ UNCHANGED <<cached, catalog, made>>
          ELSE IF st.op = "begin"
          THEN Advance(p, c, [c EXCEPT !.inTx = TRUE]) /\ UNCHANGED <<catalog, made>>
          ELSE IF st.op = "createSchema"
          THEN /\ catalog' = catalog \cup {<<st.schema>>}
               /\ Advance(p, c, c)
               /\ UNCHANGED made
          ELSE IF st.op = "setLocal"
          THEN Advance(p, c, c) /\ UNCHANGED <<catalog, made>>
          ELSE IF st.op = "createTable"
          THEN /\ UNCHANGED <<catalog, made>>
               /\ IF t \in catalog THEN Advance(p, c, c)
                  ELSE IF Held(t, p)
                  THEN /\ calls' = [calls EXCEPT ![p] = [c EXCEPT !.pc = "blocked"]]
                       /\ UNCHANGED <<cached, repoPools>>
                  ELSE Advance(p, c, [c EXCEPT !.txn = @ \cup {t}])
          ELSE /\ catalog' = catalog \cup c.txn          \* commit
               /\ made' = [u \in Tables |-> IF u \in c.txn THEN made[u] + 1 ELSE made[u]]
               /\ Advance(p, c, [c EXCEPT !.txn = {}, !.inTx = FALSE])

\* the transaction a "create table" waited for has ended: committed, the
\* waiting statement fails on the catalog's unique index; rolled back, it
\* goes on to create the table
Unblock(p) ==
    LET c == calls[p]
        st == Statements(c)[c.stmt]
        t == <<st.schema, st.table>>
    IN /\ c.pc = "blocked"
       /\ ~Held(t, p)
       /\ UNCHANGED <<cached, authPool, ready, catalog, made>>
       /\ IF t \in catalog THEN Fail(p, c)
          ELSE /\ calls' = [calls EXCEPT ![p] = [c EXCEPT !.pc = "ddl"]]
               /\ UNCHANGED repoPools

\* the connection of a failed call is closed with its transaction still open
Rollback(p) ==
    /\ calls[p].pc = "failed"
    /\ calls[p].inTx
    /\ calls' = [calls EXCEPT ![p].txn = {}, ![p].inTx = FALSE]
    /\ UNCHANGED <<cached, authPool, repoPools, ready, catalog, made>>

\* await localPool.query("set search_path to ..."), then return localPool
SearchPath(p) ==
    LET c == calls[p]
    IN /\ c.pc = "searchPath"
       /\ UNCHANGED <<cached, authPool, catalog, made>>
       /\ IF c.fault = "searchPath" THEN Fail(p, c) /\ UNCHANGED ready
          ELSE ready' = ready \cup {p} /\ Return(p, c, p)

PoolInit ==
    /\ cached = [n \in PoolNames |-> 0]
    /\ authPool = 0
    /\ repoPools = [n \in PoolNames |-> 0]
    /\ calls = [p \in Calls |-> IdleCall]
    /\ ready = {}
    /\ catalog = {<<DefaultSchema>>, <<DefaultSchema, "users">>,
                  <<DefaultSchema, "sessions">>, <<AuthInternalSchema>>,
                  <<AuthInternalSchema, "client_servers">>}
    /\ made = [t \in Tables |-> 0]

PoolNext ==
    \/ \E p \in Calls, name \in PoolNames, fault \in Faults :
           Call(p, "getPoolForSchema", name, fault) /\ UNCHANGED <<sysVars, partVars, ownerCall, guardVars>>
    \/ \E p \in Calls, name \in PoolNames, fault \in Faults :
           Call(p, "check", name, fault) /\ UNCHANGED <<sysVars, partVars, ownerCall, guardVars>>
    \/ \E p \in Calls, fault \in Faults \ {"searchPath"} :
           Call(p, "getPool", AuthInternalSchema, fault) /\ UNCHANGED <<sysVars, partVars, ownerCall, guardVars>>
    \/ \E p \in Calls : Connect(p) /\ UNCHANGED <<sysVars, partVars, ownerCall, guardVars>>
    \/ \E p \in Calls : Exec(p) /\ UNCHANGED <<sysVars, partVars, ownerCall, guardVars>>
    \/ \E p \in Calls : Unblock(p) /\ UNCHANGED <<sysVars, partVars, ownerCall, guardVars>>
    \/ \E p \in Calls : Rollback(p) /\ UNCHANGED <<sysVars, partVars, ownerCall, guardVars>>
    \/ \E p \in Calls : SearchPath(p) /\ UNCHANGED <<sysVars, partVars, ownerCall, guardVars>>


\* ------------------------------------------------- the partitions' rows
Ops == 1..MaxOps

PartA == SchemaNameFor(<<"A", "-">>, 0)
PartB == SchemaNameFor(<<"A", "-">>, 1)
PartNames == {PartA, PartB}

PublicSchema == <<"public">>

\* the search_path of a connection on which no SET has run ("$user", public)
DefaultPath == <<PublicSchema>>

ConnIds == PartNames \X (1..MaxConns)
NoConn == <<NoSchema, 0>>

\* SET search_path TO ${schemaName}, public with a schema name of its own
SearchPathFixed(schemaName) == <<PartA, PublicSchema>>

\* SET search_path TO ${schemaName}, public
SearchPathFor(schemaName) == <<schemaName, PublicSchema>>

\* the schema an unqualified table name resolves to on a search path: the
\* first one that has the table (the provisioned partitions have users and
\* sessions, public has neither); NoSchema when none has
Resolve(path, table) ==
    LET hits == {i \in 1..Len(path) : path[i] \in PartNames}
    IN IF hits = {} THEN NoSchema
       ELSE path[CHOOSE i \in hits : \A k \in hits : i <= k]

\* DELETE FROM users WHERE id = $1 on a sessions table without the reference
deleteUserNoCascade(part, id) ==
    [part EXCEPT !.users = {u \in @ : u.id # id}]

\* DELETE FROM users WHERE id = $1, with sessions.user_id
\* REFERENCES users(id) ON DELETE CASCADE
deleteUserRows(part, id) ==
    [users |-> {u \in part.users : u.id # id},
     sessions |-> {r \in part.sessions : r.user_id # id}]

IdleOp ==
    [kind |-> None, schema |-> NoSchema, email |-> None, target |-> NoId,
     pc |-> "idle", conn |-> NoConn, found |-> NoId, rows |-> {},
     status |-> None, sid |-> NoId]

\* connections checked out by an operation
Busy == {ops[q].conn : q \in Ops} \ {NoConn}

IdleConns(schema) ==
    {c \in ConnIds : c[1] = schema /\ conns[c] # << >> /\ c \notin Busy}

ClosedConns(schema) == {c \in ConnIds : c[1] = schema /\ conns[c] = << >>}

\* the connection a new client becomes: the next one not yet open
NewConn(schema) ==
    {c \in ClosedConns(schema) : \A d \in ClosedConns(schema) : c[2] <= d[2]}

\* the connections pool.connect() / pool.query() may hand out: an idle one,
\* a new one only when none is idle
Available(schema) ==
    IF IdleConns(schema) # {} THEN IdleConns(schema) ELSE NewConn(schema)

\* the path of connection c once handed out (a new one starts on the default)
PathOf(c) == IF conns[c] = << >> THEN DefaultPath ELSE conns[c]

OpKinds == {"createUser", "getUsers", "getUserByEmail", "login", "deleteUser"}

\* a call of userRepository.js (login: of userService.login after
\* detectSchema), up to its first await; check(schema) finds the handle
\* cached; the call takes the first slot that is free (one never used, or
\* one whose call has returned)
Start(p, kind, schema, email, target) ==
    /\ ops[p].pc \in {"idle", "done"}
    /\ \A q \in 1..(p - 1) : ops[q].pc \notin {"idle", "done"}
    /\ started < MaxStarts
    /\ started' = started + 1
    /\ ops' = [ops EXCEPT ![p] = [IdleOp EXCEPT !.kind = kind, !.schema = schema,
                      !.email = email, !.target = target, !.pc = "connect",
                      !.found = IF kind = "createUser" THEN nextId + 1 ELSE NoId]]
    /\ IF kind = "createUser"
       THEN /\ nextId < MaxIds
            /\ nextId' = nextId + 1
            /\ home' = [home EXCEPT ![nextId + 1] = schema]
       ELSE UNCHANGED <<nextId, home>>
    /\ UNCHANGED <<db, conns>>

\* const client = await pool.connect()
Acquire(p) ==
    /\ ops[p].pc = "connect"
    /\ \E c \in Available(ops[p].schema) :
           /\ ops' = [ops EXCEPT ![p].conn = c, ![p].pc = "setPath"]
           /\ conns' = [conns EXCEPT ![c] = PathOf(c)]
    /\ UNCHANGED <<db, nextId, started, home>>

\* await client.query(`SET search_path TO ${schemaName}, public;`)
SetPath(p) ==
    /\ ops[p].pc = "setPath"
    /\ conns' = [conns EXCEPT ![ops[p].conn] = SearchPathFor(ops[p].schema)]
    /\ ops' = [ops EXCEPT ![p].pc = "query"]
    /\ UNCHANGED <<db, nextId, started, home>>

\* the operation's statement, then client.release() in the finally block
Query(p) ==
    LET o == ops[p]
        T == Resolve(conns[o.conn], "users")
        hits == IF T = NoSchema THEN {} ELSE {u \in db[T].users : u.email = o.email}
        end(status, rows) ==
            ops' = [ops EXCEPT ![p] = [o EXCEPT !.pc = "done", !.conn = NoConn,
                                               !.target = NoId,
                                               !.status = status, !.rows = rows]]
    IN /\ o.pc = "query"
       /\ UNCHANGED <<conns, started, home>>
       /\ IF T = NoSchema
          THEN end("DbError", {}) /\ UNCHANGED <<db, nextId>>
          ELSE IF o.kind = "createUser"
          THEN /\ UNCHANGED nextId
               /\ IF hits # {}       \* email VARCHAR(255) UNIQUE
                  THEN end("DbError", {}) /\ UNCHANGED db
                  ELSE /\ db' = [db EXCEPT ![T].users =
                                     @ \cup {[id |-> o.found, email |-> o.email]}]
                       /\ end("ok", {})
          ELSE IF o.kind = "getUsers"
          THEN end("ok", db[T].users) /\ UNCHANGED <<db, nextId>>
          ELSE IF o.kind = "getUserByEmail"
          THEN end("ok", hits) /\ UNCHANGED <<db, nextId>>
          ELSE IF o.kind = "deleteUser"
          THEN /\ db' = [db EXCEPT ![T] = deleteUserRows(@, o.target)]
               /\ end("ok", {})
               /\ UNCHANGED nextId
          ELSE /\ UNCHANGED db        \* login
               /\ IF hits = {}
                  THEN end("AuthError", {}) /\ UNCHANGED nextId
                  ELSE /\ nextId + 3 <= MaxIds
                       /\ nextId' = nextId + 3
                       /\ ops' = [ops EXCEPT ![p] =
                              [o EXCEPT !.pc = "insertSession", !.conn = NoConn,
                                        !.rows = hits,
                                        !.found = (CHOOSE u \in hits : TRUE).id,
                                        !.sid = nextId + 2]]

\* sessionRepo.createSession: pool.query(queries.createSession, ...) on
\* whichever connection the handle hands out; the statement names the table
\* "sessions" unqualified and no search_path is set for it
InsertSession(p) ==
    LET o == ops[p]
    IN /\ o.pc = "insertSession"
       /\ UNCHANGED <<nextId, started, home>>
       /\ \E c \in Available(o.schema) :
              LET T == Resolve(PathOf(c), "sessions")
              IN /\ conns' = [conns EXCEPT ![c] = PathOf(c)]
                 /\ IF T = NoSchema      \* relation "sessions" does not exist
                    THEN /\ ops' = [ops EXCEPT ![p].pc = "done", ![p].status = "DbError"]
                         /\ UNCHANGED db
                    ELSE IF \A u \in db[T].users : u.id # o.found   \* REFERENCES users(id)
                    THEN /\ ops' = [ops EXCEPT ![p].pc = "done", ![p].status = "DbError"]
                         /\ UNCHANGED db
                    ELSE /\ db' = [db EXCEPT ![T].sessions = @ \cup
                                {[id |-> o.sid, user_id |-> o.found,
                                  session_id |-> o.sid + 1]}]
                         /\ ops' = [ops EXCEPT ![p].pc = "done", ![p].status = "ok"]

\* both partitions provisioned by getPoolForSchema, whose "set search_path"
\* ran on the one idle connection of each handle
PartInit ==
    /\ db = [n \in PartNames |-> EmptyPart]
    /\ conns = [c \in ConnIds |-> IF c[2] = 1 THEN SearchPathFor(c[1]) ELSE << >>]
    /\ ops = [p \in Ops |-> IdleOp]
    /\ nextId = 0
    /\ started = 0
    /\ home = [i \in 1..MaxIds |-> NoSchema]

PartNext ==
    \/ \E p \in Ops, kind \in OpKinds \ {"deleteUser"}, schema \in PartNames,
          email \in Emails :
           Start(p, kind, schema, email, NoId) /\ UNCHANGED <<sysVars, poolVars, ownerCall, guardVars>>
    \/ \E p \in Ops, schema \in PartNames, target \in {i \in 1..MaxIds : home[i] # NoSchema} :
           Start(p, "deleteUser", schema, None, target) /\ UNCHANGED <<sysVars, poolVars, ownerCall, guardVars>>
    \/ \E p \in Ops : Acquire(p) /\ UNCHANGED <<sysVars, poolVars, ownerCall, guardVars>>
    \/ \E p \in Ops : SetPath(p) /\ UNCHANGED <<sysVars, poolVars, ownerCall, guardVars>>
    \/ \E p \in Ops : Query(p) /\ UNCHANGED <<sysVars, poolVars, ownerCall, guardVars>>
    \/ \E p \in Ops : InsertSession(p) /\ UNCHANGED <<sysVars, poolVars, ownerCall, guardVars>>


\* --------------------------------------------------------- the owner service
\* the columns of a partition's users table (ddl of the client template)
usersColumns ==
    {"id", "name", "role", "email", "password_hash", "created_at", "updated_at"}

OwnerOps ==
    {"getClientUsers", "getClientUser", "createClientUser", "updateClientUser",
     "deleteClientUser", "getClientAnalytics"}

\* the columns of users the statements of an operation name
QueriedColumns(op) ==
    IF op \in {"getClientUsers", "getClientUser"}
    THEN {"user_id", "name", "email", "role", "created_at"}
    ELSE IF op \in {"createClientUser", "updateClientUser"} THEN {"user_id", "email"}
    ELSE IF op = "deleteClientUser" THEN {"user_id"}
    ELSE {"role", "name", "email", "created_at"}

\* the registry the owner service reads: one tenant of account 1, one of
\* account 2
OwnerRegistry ==
    <<createClientServer(0, [app_name |-> <<"A", "-">>, assigned_schema_name |-> PartA,
                             allowed_return_urls |-> <<UrlPrefixA>>, user_id |-> 1,
                             client_mode |-> None]),
      createClientServer(2, [app_name |-> <<"A", "-">>, assigned_schema_name |-> PartB,
                             allowed_return_urls |-> <<UrlPrefixB>>, user_id |-> 2,
                             client_mode |-> None])>>

\* client ids a caller may name: the two tenants' and one of no tenant
ClientIds == {<<"client", 1>>, <<"client", 3>>, <<"client", 5>>}

\* the sessions a caller may hold after detectSchema
OwnerSessions ==
    {[FreshSession EXCEPT !.userId = u, !.poolMetadata.user_role = r] :
        u \in {NoId, 1, 2}, r \in {None, "user", "owner", "admin"}}

Denied(e) == [ok |-> FALSE, error |-> e, schema |-> NoSchema]

verifyClientOwnership(s, clientId, rows) ==
    IF s.userId = NoId THEN Denied("Authentication required")
    ELSE IF isSystemAdmin(s)
    THEN LET found == RowsById(rows, clientId)
         IN IF found = << >> THEN Denied("Client server not found")
            ELSE [ok |-> TRUE, error |-> None, schema |-> found[1].assigned_schema_name]
    ELSE IF isClientOwner(s)
    THEN LET found == SelectSeq(RowsById(rows, clientId), LAMBDA r : r.user_id = s.userId)
         IN IF found = << >> THEN Denied("Client server not found or access denied")
            ELSE [ok |-> TRUE, error |-> None, schema |-> found[1].assigned_schema_name]
    ELSE Denied("Owner or admin privileges required")

\* a client-scoped operation: the gate, getPoolForSchema of the tenant's
\* partition, then the operation's statements on its users table
ClientOp(op, s, clientId) ==
    LET gate == verifyClientOwnership(s, clientId, OwnerRegistry)
    IN /\ ownerCall' =
              [op |-> op, session |-> s, clientId |-> clientId,
               accessed |-> gate.schema,
               status |-> IF ~gate.ok THEN gate.error
                          ELSE IF QueriedColumns(op) \subseteq usersColumns THEN "ok"
                          ELSE "DbError"]
       /\ UNCHANGED <<sysVars, poolVars, partVars, guardVars>>

getClientUsers(s, clientId) == ClientOp("getClientUsers", s, clientId)
getClientUser(s, clientId) == ClientOp("getClientUser", s, clientId)
createClientUser(s, clientId) == ClientOp("createClientUser", s, clientId)
updateClientUser(s, clientId) == ClientOp("updateClientUser", s, clientId)
deleteClientUser(s, clientId) == ClientOp("deleteClientUser", s, clientId)
getClientAnalytics(s, clientId) == ClientOp("getClientAnalytics", s, clientId)

OwnerInit ==
    ownerCall = [op |-> None, session |-> FreshSession, clientId |-> NoClient,
                 accessed |-> NoSchema, status |-> None]

OwnerNext ==
    \/ \E s \in OwnerSessions, clientId \in ClientIds : getClientUsers(s, clientId)
    \/ \E s \in OwnerSessions, clientId \in ClientIds : getClientUser(s, clientId)
    \/ \E s \in OwnerSessions, clientId \in ClientIds : createClientUser(s, clientId)
    \/ \E s \in OwnerSessions, clientId \in ClientIds : updateClientUser(s, clientId)
    \/ \E s \in OwnerSessions, clientId \in ClientIds : deleteClientUser(s, clientId)
    \/ \E s \in OwnerSessions, clientId \in ClientIds : getClientAnalytics(s, clientId)


\* ------------------------------------------------- the pool service's guards
\* the sessions a caller may hold after detectSchema
GuardSessions ==
    {[FreshSession EXCEPT !.poolContext = pc, !.userId = u,
                          !.poolMetadata.user_role = r] :
        pc \in {POOL_CONTEXTS.DEFAULT, POOL_CONTEXTS.AUTH_INTERNAL,
                POOL_CONTEXTS.CLIENT_TENANT, POOL_CONTEXTS.API_CLIENT},
        u \in {NoId, 1},
        r \in {None, "user", "owner", "admin", "api_client"}}

\* a guard returns (TRUE) or throws (FALSE); this one lets the owner through
\* as well
requireSystemAdminOrOwner(s) == isSystemAdmin(s) \/ isClientOwner(s)

requireSystemAdmin(s) == isSystemAdmin(s)

requireClientOwner(s) == isClientOwner(s)

\* SELECT ... FROM client_servers ORDER BY created_at DESC
AllClientServersQuery == "select client_servers"

\* the outcome of a call: whether it returned, and the statements it ran
\* against the control-plane handle, in order
GuardOutcome(op, s, returned, statements) ==
    /\ guardCall' = [op |-> op, session |-> s, returned |-> returned,
                     statements |-> statements]
    /\ UNCHANGED <<sysVars, poolVars, partVars, ownerCall, poolCall>>

CheckSystemAdmin(s) == GuardOutcome("requireSystemAdmin", s, requireSystemAdmin(s), << >>)

CheckClientOwner(s) == GuardOutcome("requireClientOwner", s, requireClientOwner(s), << >>)

\* requireSystemAdmin(req); adminPool = await getAdminPool(); adminPool.query(query)
executeSystemAdminQuery(s, query) ==
    IF requireSystemAdmin(s)
    THEN GuardOutcome("executeSystemAdminQuery", s, TRUE, <<query>>)
    ELSE GuardOutcome("executeSystemAdminQuery", s, FALSE, << >>)

\* requireSystemAdmin(req); executeSystemAdminQuery(req, query)
getAllClientServers(s) ==
    IF requireSystemAdmin(s)
    THEN IF requireSystemAdmin(s)
         THEN GuardOutcome("getAllClientServers", s, TRUE, <<AllClientServersQuery>>)
         ELSE GuardOutcome("getAllClientServers", s, FALSE, << >>)
    ELSE GuardOutcome("getAllClientServers", s, FALSE, << >>)

\* tenant partitions a context may name
TenantNames ==
    {SchemaNameFor(<<"A", "-">>, 0), SchemaNameFor(<<"A", "-">>, 1),
     SchemaNameFor(<<"B">>, 0)}

\* the sessions getPoolForRequest may be handed: one without context (a
\* caller passing its pool as req included), and those setPoolContext leaves
RequestSessions ==
    {FreshSession,
     [FreshSession EXCEPT !.poolContext = POOL_CONTEXTS.DEFAULT, !.schema = DefaultSchema],
     [FreshSession EXCEPT !.poolContext = POOL_CONTEXTS.AUTH_INTERNAL,
                          !.schema = AuthInternalSchema]}
    \cup {[FreshSession EXCEPT !.poolContext = pc, !.schema = sch] :
             pc \in {POOL_CONTEXTS.CLIENT_TENANT, POOL_CONTEXTS.API_CLIENT},
             sch \in TenantNames}

\* the partitions whose acquisition (getPool / getPoolForSchema) throws
FailingSets ==
    SUBSET ({DefaultSchema, AuthInternalSchema} \cup TenantNames)

PoolResult(returned, handle) == [returned |-> returned, handle |-> handle]

\* try { return await resolvePoolFromSession(req) }
\* catch { return await getPoolForSchema(defaultSchema) }
getPoolForRequest(s, failing) ==
    IF resolvePoolFromSession(s) \notin failing
    THEN PoolResult(TRUE, resolvePoolFromSession(s))
    ELSE IF DefaultSchema \notin failing
    THEN PoolResult(TRUE, DefaultSchema)
    ELSE PoolResult(FALSE, NoSchema)

\* a repository function of client_servers asking for its handle
GetPoolForRequest(s, failing) ==
    /\ poolCall' = [session |-> s, failing |-> failing, called |-> TRUE,
                    result |-> getPoolForRequest(s, failing)]
    /\ UNCHANGED <<sysVars, poolVars, partVars, ownerCall, guardCall>>

GuardInit ==
    /\ guardCall = [op |-> None, session |-> FreshSession, returned |-> FALSE,
                    statements |-> << >>]
    /\ poolCall = [session |-> FreshSession, failing |-> {}, called |-> FALSE,
                   result |-> PoolResult(FALSE, NoSchema)]

GuardNext ==
    \/ \E s \in GuardSessions : CheckSystemAdmin(s)
    \/ \E s \in GuardSessions : CheckClientOwner(s)
    \/ \E s \in GuardSessions, q \in {"select users", AllClientServersQuery} :
           executeSystemAdminQuery(s, q)
    \/ \E s \in GuardSessions : getAllClientServers(s)

PoolRequestNext ==
    \E s \in RequestSessions, failing \in FailingSets : GetPoolForRequest(s, failing)


Init == SysInit /\ PoolInit /\ PartInit /\ OwnerInit /\ GuardInit

Spec == Init /\ [][Next]_vars

SpecPool == Init /\ [][PoolNext]_vars

SpecPart == Init /\ [][PartNext]_vars

SpecOwner == Init /\ [][OwnerNext]_vars

SpecGuard == Init /\ [][GuardNext]_vars

SpecRegistry == Init /\ [][RegistryNext]_vars

SpecNames == Init /\ [][NamesNext]_vars

SpecPoolRequest == Init /\ [][PoolRequestNext]_vars

SpecRevoke == Init /\ [][RevokeNext]_vars

\* ------------------------------------------- claims on the request handlers
\* the request resp describes was served by the resolver
Served == resp.route # "none"

\* the registry rows the returnUrl lookup of the last request listed
Listed == authClients \o clients

DefaultCtx ==
    [poolContext |-> POOL_CONTEXTS.DEFAULT, schema |-> DefaultSchema,
     role |-> USER_ROLES.USER]

\* C1: a request carrying a valid bearer token bound to tenant A and a
\* returnUrl matching another tenant B resolves to A's partition with pool
\* context api_client, whatever the session held before.
C1_TokenPrecedesReturnUrl ==
    \A i, j \in 1..Len(clients) :
        (/\ Served
         /\ i # j
         /\ resp.req.token = TokenFor(clients[i])
         /\ ClientMatches(clients[j], resp.req.returnUrl))
        => /\ resp.ctx.poolContext = POOL_CONTEXTS.API_CLIENT
           /\ resp.ctx.schema = clients[i].assigned_schema_name

\* C2: the context a request resolves to is determined by that request's own
\* token, returnUrl and principal only: it equals what the resolver yields on
\* a session holding the same principal and no earlier context.
C2_ContextNotCarriedOver ==
    resp.route \in {"any", "login", "register", "logout"}
    => resp.ctx = Ctx(detectSchema(
                      [FreshSession EXCEPT !.userId = resp.pre.userId,
                                           !.role = resp.pre.role],
                      resp.req, authClients, clients))

\* the context step 3 owes to a logged-in principal
PrincipalCtx(userId, role) ==
    IF role = "admin"
    THEN [poolContext |-> POOL_CONTEXTS.AUTH_INTERNAL, schema |-> AuthInternalSchema,
          role |-> USER_ROLES.ADMIN]
    ELSE IF OwnedCount(clients, userId) > 0
    THEN [poolContext |-> POOL_CONTEXTS.AUTH_INTERNAL, schema |-> AuthInternalSchema,
          role |-> USER_ROLES.OWNER]
    ELSE DefaultCtx

\* C4: a request of a session authenticated by an earlier login, with no
\* bearer token and no matching returnUrl, resolves to admin/auth_internal for
\* a system administrator, to owner/auth_internal for the owner of at least
\* one tenant, and to user/default partition otherwise.
C4_PrincipalRoleResolution ==
    (/\ resp.route = "any"
     /\ resp.pre.userId # NoId
     /\ ~resp.req.token.present
     /\ ~resp.req.regFails
     /\ FindMatching(Listed, resp.req.returnUrl) = 0)
    => resp.ctx = PrincipalCtx(resp.pre.userId, resp.pre.role)

\* C5: a request with no bearer token, no matching returnUrl (or a registry
\* lookup that throws) and no session state is handed on to the next handler
\* with pool context default, the default partition and role user.
C5_DefaultFallback ==
    (/\ Served
     /\ resp.pre = FreshSession
     /\ ~resp.req.token.present
     /\ (resp.req.regFails \/ FindMatching(Listed, resp.req.returnUrl) = 0))
    => resp.next /\ resp.ctx = DefaultCtx

C5_Witness ==
    /\ resp.route = "any"
    /\ resp.pre = FreshSession
    /\ ~resp.req.token.present
    /\ resp.req.regFails
    /\ FindMatching(Listed, resp.req.returnUrl) # 0
    /\ resp.next
    /\ resp.ctx = DefaultCtx

\* C9: register returns what it persisted: for every credential a register
\* call returned, the registry holds a record with the returned client_id and
\* partition name whose stored hash matches the returned secret.
C9_RegisterReturnsPersisted ==
    \A cred \in issued :
        \E i \in 1..Len(clients) :
            /\ clients[i].client_id = cred.client_id
            /\ clients[i].assigned_schema_name = cred.assigned_schema_name
            /\ Compare(cred.client_secret, clients[i].client_secret_hash)

\* --------------------------------------------- claims on the partitions' rows
Lookups == {"getUsers", "getUserByEmail", "login"}

\* C3: partition isolation: the rows a lookup through partition B's handle
\* returns (getUsers, getUserByEmail, login's lookup) are accounts created in
\* B; an account created in another partition A is never among them, under
\* any interleaving of the operations.
C3_PartitionIsolation ==
    \A p \in Ops :
        (ops[p].kind \in Lookups /\ ops[p].pc \in {"insertSession", "done"})
        => \A r \in ops[p].rows : home[r.id] = ops[p].schema

C3_Witness ==
    \E p \in Ops :
        /\ ops[p].kind = "getUserByEmail"
        /\ ops[p].pc = "done"
        /\ ops[p].schema = PartB
        /\ ops[p].rows = {}
        /\ \E u \in db[PartA].users : u.email = ops[p].email /\ home[u.id] = PartA
        /\ db[PartB].users = {}

\* C8: session records never span partitions: every session row of a
\* partition references an account row of the same partition, and the row a
\* successful login wrote is in no partition but the one its account was
\* looked up in, whichever connection of the handle ran the insert.
C8_SessionsWithinPartition ==
    /\ \A P \in PartNames : \A r \in db[P].sessions :
           \E u \in db[P].users : u.id = r.user_id
    /\ \A p \in Ops :
           (ops[p].kind = "login" /\ ops[p].pc = "done" /\ ops[p].status = "ok")
           => \A P \in PartNames \ {ops[p].schema} :
                  \A r \in db[P].sessions : r.id # ops[p].sid

C8_Witness ==
    \E p \in Ops :
        /\ ops[p].kind = "login"
        /\ ops[p].pc = "done"
        /\ ops[p].status = "ok"
        /\ \E r \in db[ops[p].schema].sessions :
               r.id = ops[p].sid /\ r.user_id = ops[p].found

\* ------------------------------------------------ claims on the pool manager
\* no failure is injected, and every call made is getPoolForSchema for the
\* partition no call has seen before
OnlyFirstCalls ==
    \A p \in Calls :
        /\ calls[p].fault = "none"
        /\ calls[p].pc # "idle"
           => calls[p].fn = "getPoolForSchema" /\ calls[p].name = TenantSchema

Quiescent == \A p \in Calls : calls[p].pc \in {"idle", "done", "failed"}

\* C6: when getPoolForSchema is called concurrently for a never-seen name,
\* no call fails, and once the calls have returned each partition table has
\* been created exactly once and every returned handle has its search path
\* set.
C6_ConcurrentProvisioning ==
    OnlyFirstCalls
    => /\ \A p \in Calls : calls[p].pc # "failed"
       /\ (Quiescent /\ \E p \in Calls : calls[p].pc = "done")
          => /\ \A t \in {<<TenantSchema, "users">>, <<TenantSchema, "sessions">>} :
                    t \in catalog /\ made[t] = 1
             /\ \A p \in Calls : calls[p].pc = "done" => calls[p].result \in ready

\* C7: a failed acquisition is never cached: once a call of getPoolForSchema,
\* getPool or check has failed, neither cache holds the handle that call
\* constructed.
C7_FailedNeverCached ==
    \A p \in Calls :
        calls[p].pc = "failed"
        => /\ authPool # p
           /\ \A n \in PoolNames : cached[n] # p /\ repoPools[n] # p

\* ---------------------------------------------- claims on the owner service
\* the tenant the last owner operation named, << >> when there is none
NamedTenant == RowsById(OwnerRegistry, ownerCall.clientId)

Rejected == ownerCall.status \notin {"ok", "DbError", None} /\ ownerCall.accessed = NoSchema

\* C10: the ownership gate: for each client-scoped owner operation, a caller
\* with role owner that does not own the named tenant is rejected without the
\* tenant's partition being accessed, the same caller succeeds for a tenant
\* it owns, a caller with role admin succeeds for any existing tenant, and a
\* caller with role user is always rejected.
C10_OwnershipGate ==
    (ownerCall.op # None /\ ownerCall.session.userId # NoId)
    => LET role == getUserRole(ownerCall.session)
           owns == /\ NamedTenant # << >>
                   /\ NamedTenant[1].user_id = ownerCall.session.userId
       IN /\ (role = USER_ROLES.OWNER /\ ~owns) => Rejected
          /\ (role = USER_ROLES.OWNER /\ owns) => ownerCall.status = "ok"
          /\ (role = USER_ROLES.ADMIN /\ NamedTenant # << >>) => ownerCall.status = "ok"
          /\ role = USER_ROLES.USER => Rejected

\* ------------------------------------------- claims on the pool service guards
GuardRole == getUserRole(guardCall.session)

\* C11: the owner guard returns for every context whose role is owner and for
\* every context whose role is admin, and throws for every other role.
C11_OwnerGuardAcceptsUpperTiers ==
    guardCall.op = "requireClientOwner"
    => (guardCall.returned <=> GuardRole \in {USER_ROLES.OWNER, USER_ROLES.ADMIN})

\* C12: the system-admin guard returns only when the role is exactly admin;
\* for owner, user, api_client or no role metadata the call throws and runs no
\* statement against the control-plane handle.
C12_SystemAdminOnly ==
    guardCall.op \in {"requireSystemAdmin", "executeSystemAdminQuery", "getAllClientServers"}
    => /\ guardCall.returned <=> guardCall.session.poolMetadata.user_role = USER_ROLES.ADMIN
       /\ ~guardCall.returned => guardCall.statements = << >>

C12_Witness ==
    /\ guardCall.op = "getAllClientServers"
    /\ guardCall.session.poolMetadata.user_role = USER_ROLES.OWNER
    /\ guardCall.session.poolContext = POOL_CONTEXTS.AUTH_INTERNAL
    /\ ~guardCall.returned

\* C13: in every request that reads or changes a partition's account or
\* session rows, a privilege guard has returned earlier in the same request,
\* before the first statement on the partition.
C13_GuardBeforeAccess ==
    \A i \in 1..Len(resp.steps) :
        resp.steps[i].kind = "query"
        => \E j \in 1..(i - 1) : resp.steps[j].kind = "guard"

\* --------------------------------------------- claims on token verification
\* C14: verifyApiToken succeeds exactly when the token is well signed, not
\* older than its lifetime, of the api type, and the tenant record of its
\* client_id exists; every other call fails with an authentication error, an
\* expired token in particular.
C14_VerifyAcceptance ==
    resp.req.token.present
    => LET tk == resp.req.token
           v == resp.verify
           good == /\ tk.sigOk
                   /\ ~tk.expired
                   /\ tk.type = "api_token"
                   /\ RowsById(authClients \o clients, tk.client_id) # << >>
       IN /\ v.ok <=> good
          /\ ~v.ok => v.error = "AuthError"

\* C15: a request whose bearer token fails verification is not aborted, and
\* resolves to the context the same request resolves to without the header.
C15_InvalidTokenFallsThrough ==
    (resp.req.token.present /\ ~resp.verify.ok)
    => /\ resp.next
       /\ resp.ctx = Ctx(detectSchema(resp.pre, [resp.req EXCEPT !.token = NoToken],
                                      authClients, clients))

C15_Witness ==
    /\ resp.req.token.present
    /\ resp.req.token.expired
    /\ resp.verify.error = "AuthError"
    /\ resp.pre.poolContext = None
    /\ resp.ctx.poolContext = POOL_CONTEXTS.CLIENT_TENANT

\* C16: a request not resolved by a bearer token whose body carries returnUrl
\* resolves to the partition of the first tenant, in listing order, one of
\* whose allowed return URLs is a prefix of returnUrl, with pool context
\* client_tenant and role user; when no tenant has such a prefix it resolves
\* as the same request without returnUrl does.
C16_ReturnUrlFirstMatch ==
    (/\ Served
     /\ ~resp.verify.ok
     /\ resp.req.returnUrl # NoUrl
     /\ ~resp.req.regFails)
    => LET Hit(i) == \E j \in 1..Len(Listed[i].allowed_return_urls) :
                         StartsWith(resp.req.returnUrl, Listed[i].allowed_return_urls[j])
       IN IF \E i \in 1..Len(Listed) : Hit(i)
          THEN \E i \in 1..Len(Listed) :
                  /\ Hit(i)
                  /\ \A k \in 1..(i - 1) : ~Hit(k)
                  /\ resp.ctx = [poolContext |-> POOL_CONTEXTS.CLIENT_TENANT,
                                 schema |-> Listed[i].assigned_schema_name,
                                 role |-> USER_ROLES.USER]
          ELSE resp.ctx = Ctx(detectSchema(resp.pre, [resp.req EXCEPT !.returnUrl = NoUrl],
                                           authClients, clients))

\* ------------------------------------------------- claims on the registry
RegisterRoutes == {"registerClientServer", "registerClientServerForUser"}

LookupRoutes ==
    {"getUserClientServers", "getUserClientServer", "getClientServerInfo",
     "updateUserClientServer", "updateClientServer"}

\* C17: after register, no registry record stores a plaintext secret (only its
\* bcrypt hash), no lookup, list or update returns a secret, and the only
\* response that carries one is that of the register call that drew it.
C17_SecretNeverRoundTrips ==
    /\ \A i \in 1..Len(authClients \o clients) :
          LET row == (authClients \o clients)[i]
          IN "client_secret" \notin DOMAIN row /\ row.client_secret_hash[1] = "bcrypt"
    /\ resp.route \in LookupRoutes
       => \A k \in 1..Len(resp.data) :
             /\ "client_secret" \notin DOMAIN resp.data[k]
             /\ "client_secret_hash" \notin DOMAIN resp.data[k]
    /\ (resp.out.client_secret # NoId /\ resp.route # "handshake")
       => resp.route \in RegisterRoutes /\ resp.out \in issued

C17_Witness ==
    /\ issued # {}
    /\ resp.route = "getUserClientServers"
    /\ resp.status = "ok"
    /\ Len(resp.data) = 1
    /\ resp.data[1].client_id \in {clients[i].client_id : i \in 1..Len(clients)}

\* the error type and message a caller sees
Failure(r) == <<r.status, r.message>>

\* C18: a handshake naming an unknown client_id and one naming a known
\* client_id with a wrong secret fail with the same error type and message,
\* and so do a login with an unknown email and one with a known email and a
\* wrong password.
C18_FailuresIndistinguishable ==
    /\ \A i \in 1..Len(clients), secret \in 1..MaxUuid :
          ~Compare(secret, clients[i].client_secret_hash)
          => Failure(authenticateClientServer(clients, clients[i].client_id, secret))
             = Failure(authenticateClientServer(clients, <<"client", 0>>, secret))
    /\ \A schema \in DOMAIN parts, password \in Passwords :
          \A u \in parts[schema].users :
              u.password_hash # password
              => Failure(loginOutcome({u}, password)) = Failure(loginOutcome({}, password))
    /\ (resp.route = "login" /\ resp.status # "ok")
       => Failure(resp) = Failure(loginOutcome({}, "p1"))
    /\ (resp.route = "handshake" /\ resp.status # "ok")
       => Failure(resp)
          = Failure(authenticateClientServer(clients, <<"client", 0>>, resp.out.client_secret))

C18_Witness ==
    /\ resp.route = "login"
    /\ resp.status = "AuthError"
    /\ resp.ctx.schema \in DOMAIN parts
    /\ parts[resp.ctx.schema].users # {}
    /\ clients # << >>

\* C19: a register call whose name is empty or whose redirect list is
\* missing, not a list, or empty fails with ValidationError, creates no
\* registry record and provisions no partition.
C19_RegisterValidation ==
    [][(/\ resp'.route \in RegisterRoutes
        /\ resp' # resp
        /\ resp'.route = "registerClientServerForUser" => resp'.pre.userId # NoId
        /\ \/ resp'.req.body.app_name = << >>
           \/ resp'.req.body.allowed_return_urls.type # "array"
           \/ resp'.req.body.allowed_return_urls.items = << >>)
       => /\ resp'.status = "ValidationError"
          /\ clients' = clients
          /\ authClients' = authClients
          /\ DOMAIN parts' = DOMAIN parts]_vars

UpdateRoutes == {"updateUserClientServer", "updateClientServer"}

\* C20: whatever fields an update call supplies, every registry record keeps
\* the partition name, client_id, secret hash and owner it was created with;
\* an update changes display name, redirect list and operating mode only.
C20_PartitionNameImmutable ==
    [][/\ \A i \in 1..Len(clients) : \A j \in 1..Len(clients') :
             clients'[j].client_id = clients[i].client_id
             => /\ clients'[j].assigned_schema_name = clients[i].assigned_schema_name
                /\ clients'[j].client_secret_hash = clients[i].client_secret_hash
                /\ clients'[j].user_id = clients[i].user_id
       /\ (resp'.route \in UpdateRoutes /\ resp' # resp)
          => /\ Len(clients') = Len(clients)
             /\ \A i \in 1..Len(clients) :
                   /\ clients'[i].client_id = clients[i].client_id
                   /\ clients'[i].assigned_schema_name = clients[i].assigned_schema_name]_vars

C20_Witness ==
    /\ resp.route = "updateUserClientServer"
    /\ resp.status = "ok"
    /\ resp.req.body.assigned_schema_name = DefaultSchema
    /\ resp.data[1].app_name = <<"C">>
    /\ resp.data[1].assigned_schema_name # DefaultSchema
    /\ \E i \in 1..Len(clients) :
          /\ clients[i].client_id = resp.data[1].client_id
          /\ clients[i].app_name = <<"C">>
          /\ clients[i].user_id = resp.pre.userId

Completed(q, n) ==
    /\ calls[q].pc = "done"
    /\ calls[q].fn \in {"getPoolForSchema", "check"}
    /\ calls[q].name = n
    /\ calls[q].result # 0

\* C22: once a call of getPoolForSchema for a name has completed
\* successfully, every call for that name made later returns at once with a
\* handle a cache holds, constructs no pool of its own and sends no
\* provisioning statement.
C22_CachedAcquisition ==
    [][\A p \in Calls :
          (/\ calls[p].pc = "idle"
           /\ calls'[p].pc # "idle"
           /\ calls'[p].fn \in {"getPoolForSchema", "check"}
           /\ \E q \in Calls : Completed(q, calls'[p].name))
          => /\ calls'[p].pc = "done"
             /\ calls'[p].result # p
             /\ calls'[p].result
                   \in {cached[calls'[p].name], repoPools[calls'[p].name]} \ {0}
             /\ cached' = cached
             /\ catalog' = catalog
             /\ made' = made]_vars

C22_Witness ==
    \E p, q \in Calls :
        /\ p # q
        /\ Completed(q, TenantSchema)
        /\ calls[q].result = q
        /\ Completed(p, TenantSchema)
        /\ calls[p].fn = "getPoolForSchema"
        /\ calls[p].result = q
        /\ calls[p].stmt = 0
        /\ made[<<TenantSchema, "users">>] = 1

\* ------------------------------------------------------- claims on delete
DeleteRoutes == {"deleteUserClientServer", "deleteClientServer"}

\* the caller of the delete request resp' describes may delete tenant row r:
\* an administrator through the admin route, the owner through the user route
MayDelete(r) ==
    /\ resp'.pre.userId # NoId
    /\ IF resp'.route = "deleteClientServer" THEN resp'.pre.role = "admin"
       ELSE r.user_id = resp'.pre.userId

\* C23: a delete of an existing tenant by a caller entitled to it removes
\* exactly that tenant's registry record, so that a lookup of its id finds
\* nothing; every other record, every partition with its users and sessions
\* rows, and the cached handles are left as they were.
C23_DeleteDoesNotCascade ==
    [][\A i \in 1..Len(clients) :
          (/\ resp'.route \in DeleteRoutes
           /\ resp' # resp
           /\ clients[i].client_id = resp'.req.params.client_id
           /\ MayDelete(clients[i]))
          => /\ clients' = SelectSeq(clients,
                              LAMBDA r : r.client_id # clients[i].client_id)
             /\ RowsById(clients', clients[i].client_id) = << >>
             /\ authClients' = authClients
             /\ parts' = parts
             /\ schemas' = schemas]_vars

\* C24: the names holding a handle in the pool manager's caches (the schemas
\* object of getPoolForSchema, the pool variable of getPool) only grow: a name
\* that has a cached handle has one in every later state, whatever calls are
\* made afterwards and however they end, failed acquisitions of other names
\* included.  (A handler's own statements, a tenant delete among them, go
\* through a returned handle and reach neither cache.)
C24_NoEviction ==
    [][/\ \A n \in PoolNames : cached[n] # 0 => cached'[n] # 0
       /\ authPool # 0 => authPool' # 0]_vars

C24_Witness ==
    /\ cached[DefaultSchema] # 0
    /\ cached[TenantSchema] = 0
    /\ \E p \in Calls :
          /\ calls[p].pc = "failed"
          /\ calls[p].name = TenantSchema
          /\ calls[p].fault = "ddl"
          /\ cached[DefaultSchema] # p

\* every provisioning statement of the call that constructed handle h has
\* succeeded
Provisioned(h) ==
    \/ calls[h].pc \in {"searchPath", "done"}
    \/ calls[h].pc = "failed" /\ calls[h].fault = "searchPath"

\* the tables getPoolForSchema / getPool provisions for a call
TablesOf(c) ==
    IF c.fn = "getPool" THEN {<<AuthInternalSchema, "client_servers">>}
    ELSE {<<c.name, "users">>, <<c.name, "sessions">>}

\* C25: in getPoolForSchema and in getPool a handle is in the cache only once
\* every provisioning step of the call that constructed it has succeeded, and
\* under any interleaving of first callers a handle is returned only when it
\* is provisioned and its partition's tables exist.
C25_CacheWriteLast ==
    /\ \A n \in PoolNames : cached[n] # 0 => Provisioned(cached[n])
    /\ authPool # 0 => Provisioned(authPool)
    /\ \A q \in Calls :
          (calls[q].pc = "done" /\ calls[q].result # 0)
          => Provisioned(calls[q].result) /\ TablesOf(calls[q]) \subseteq catalog

\* ------------------------------------------- claims on one run of the resolver
\* the three fields setPoolContext writes
ContextOf(s) == <<s.poolContext, s.schema, s.poolMetadata>>

\* the accounts of all partitions
Accounts == UNION {parts[n].users : n \in DOMAIN parts}

\* sessions a run may start from: the one the last request found, and those
\* of the registered principals with no context stored
RunSessions ==
    {resp.pre} \cup {[FreshSession EXCEPT !.userId = u.id, !.role = u.role] : u \in Accounts}

\* C26: within one run of detectSchema, once a step has set the context
\* (poolContext, schema, poolMetadata), no later step of that run changes any
\* of the three: a context set from a returnUrl match is replaced neither by
\* the role lookup of a logged-in owner nor by the default fallback.
C26_ShortCircuit ==
    Served
    => /\ \A S \in RunSessions :
             LET run == detectRun(S, resp.req, authClients, clients)
             IN \A k \in 2..5 : \A j \in (k + 1)..5 :
                   ContextOf(run[k]) # ContextOf(run[k - 1])
                   => ContextOf(run[j]) = ContextOf(run[k])
       /\ resp.route = "any"
          => resp.ctx = Ctx(detectRun(resp.pre, resp.req, authClients, clients)[5])

C26_Witness ==
    /\ resp.route = "any"
    /\ resp.pre = FreshSession
    /\ ~resp.req.regFails
    /\ FindMatching(Listed, resp.req.returnUrl) # 0
    /\ resp.ctx.poolContext = POOL_CONTEXTS.CLIENT_TENANT
    /\ \E u \in Accounts : OwnedCount(clients, u.id) > 0

\* C27: in every registry state that register and update operations lead to,
\* the client_mode of every tenant record is one of the two defined modes,
\* frontend-login-proxy and api-auth-server.
C27_ModeInEnumeration ==
    \A i \in 1..Len(authClients \o clients) :
        (authClients \o clients)[i].client_mode \in ClientModes

\* ------------------------------------------------ claims on the admin gate
\* the registry routes behind isAuthenticated, hasRole("admin")
AdminRoutes == {"getClientServerInfo", "deleteClientServer"}

\* the principal of session s is an account stored in a partition
PartitionPrincipal(s) == \E u \in Accounts : u.id = s.userId

\* C28: a principal logged in to an account of a tenant or default partition,
\* one self-registered with role admin included, never passes the
\* hasRole("admin") gate of the registry's admin routes and is never
\* classified as system admin by the resolver.
C28_PartitionRoleNoControlPlane ==
    /\ (resp.route \in AdminRoutes /\ PartitionPrincipal(resp.pre))
       => resp.status = "401"
    /\ (Served /\ PartitionPrincipal(resp.pre))
       => resp.ctx.role # USER_ROLES.ADMIN
    /\ \A c \in Cookies : PartitionPrincipal(sess[c]) => ~isSystemAdmin(sess[c])

\* ------------------------------------------- claims on getPoolForRequest
\* C29: getPoolForRequest returns the handle of the partition the request's
\* resolved context names (the control-plane handle for the auth_internal
\* context, the handle of session.schema otherwise) or fails; it never returns
\* the handle of another partition, not even when acquiring the resolved
\* partition's handle throws.
C29_NoSilentDowngrade ==
    poolCall.called
    => LET named == IF poolCall.session.poolContext = POOL_CONTEXTS.AUTH_INTERNAL
                    THEN AuthInternalSchema
                    ELSE SchemaOf(poolCall.session)
       IN /\ poolCall.result.returned => poolCall.result.handle = named
          /\ named \in poolCall.failing => ~poolCall.result.returned

\* ------------------------------------------- claims on deleted tenants
\* the last request bore the token of a tenant whose record has been deleted
BearsDeletedTenantToken ==
    /\ Served
    /\ resp.req.token \in IssuedTokens
    /\ RowsById(authClients \o clients, resp.req.token.client_id) = << >>

====
